---- MODULE Spec2Model ----
(***************************************************************************)
(* A model of pdb-clone's debugger core (Lib/bdb.py): the line resolver of *)
(* BdbModule, the breakpoint registry (ModuleBreakpoints, Breakpoint,      *)
(* Bdb.set_break / clear_* / restart) and the trace dispatcher of Bdb.     *)
(***************************************************************************)
EXTENDS Integers, Sequences, FiniteSets, TLC

(***************************************************************************)
(* Bounds of the model.                                                    *)
(***************************************************************************)
\* Largest source line of a generated module (the resolver's inputs).
MaxLine == 5
\* Deepest nesting of def/class units in a generated module.
MaxNest == 2

(***************************************************************************)
(* Python values.                                                          *)
(***************************************************************************)
\* Python's None where a number (a frame id, a breakpoint) is expected.
None == 0
\* Python's None where a tuple is expected (the result of _distance).
NoDist == << >>

Min(S) == CHOOSE x \in S : \A y \in S : x <= y
Max(S) == CHOOSE x \in S : \A y \in S : y <= x

RECURSIVE SortSet(_)
\* sorted(S) of a set of integers, as an ascending sequence.
SortSet(S) == IF S = {} THEN << >> ELSE <<Min(S)>> \o SortSet(S \ {Min(S)})

Range(s) == {s[i] : i \in 1..Len(s)}

\* sorted(seq): the elements of seq, ascending, duplicates kept.
RECURSIVE sorted(_)
sorted(s) ==
    IF s = << >> THEN << >>
    ELSE LET m == Min(Range(s))
             i == CHOOSE k \in 1..Len(s) : s[k] = m
         IN <<m>> \o sorted(SubSeq(s, 1, i - 1) \o SubSeq(s, i + 1, Len(s)))

\* bisect.bisect(a, x): the insertion point after every entry <= x, that is
\* the number of entries of the sorted list a that are <= x.
bisect(a, x) == Cardinality({i \in 1..Len(a) : a[i] <= x})

(***************************************************************************)
(* Code objects: co_firstlineno, co_lnotab (pairs <<byte_incr,            *)
(* line_incr>>), co_consts restricted to the nested code objects, co_name. *)
(***************************************************************************)
RECURSIVE LnotabOf(_)
\* The line table the compiler emits for the ascending lines s of a unit:
\* one <<byte_incr, line_incr>> pair per line after the first.
LnotabOf(s) ==
    IF Len(s) <= 1 THEN << >>
    ELSE << <<3, s[2] - s[1]>> >> \o LnotabOf(Tail(s))

MkCode(name, lines, consts) ==
    [co_name |-> name, co_firstlineno |-> Min(lines),
     co_lnotab |-> LnotabOf(SortSet(lines)), co_consts |-> consts]

RECURSIVE LnotabWalk(_, _, _, _)
\* The loop of code_line_numbers over the pairs (line_incr[i],
\* byte_incr[i+1]) of lnotab, the last one paired with a non-zero byte.
LnotabWalk(tab, i, lno, valid_lno) ==
    IF i > Len(tab) THEN << >>
    ELSE LET lno2 == lno + tab[i][2]
             byte_incr == IF i < Len(tab) THEN tab[i + 1][1] ELSE 1
         IN IF byte_incr = 0 THEN LnotabWalk(tab, i + 1, lno2, valid_lno)
            ELSE IF lno2 # valid_lno
                 THEN <<lno2>> \o LnotabWalk(tab, i + 1, lno2, lno2)
                 ELSE LnotabWalk(tab, i + 1, lno2, valid_lno)

\* code_line_numbers gone wrong: the line increments are summed from 0 and
\* not from co_firstlineno.
code_line_numbers_from0(code) ==
    <<code.co_firstlineno>> \o LnotabWalk(code.co_lnotab, 1, 0, 0)

\* code_line_numbers(code): co_firstlineno, then each new line of lnotab.
code_line_numbers(code) ==
    <<code.co_firstlineno>>
        \o LnotabWalk(code.co_lnotab, 1, code.co_firstlineno, code.co_firstlineno)

\* c.co_name.startswith('<'): lambdas, generator expressions, <module>.
StartsWithLt(name) == name \in {"<lambda>", "<genexpr>", "<module>"}

\* code_lnos gone wrong: the first line is dropped at module level too.
code_lnos_tail(code, module_level) ==
    IF Len(sorted(code_line_numbers(code))) > 1
    THEN Tail(sorted(code_line_numbers(code)))
    ELSE sorted(code_line_numbers(code))

\* The statement lines of a unit as _distance uses them: the sorted line
\* numbers, without the first one (the def or class line) below module
\* level when the unit has more than one line.
code_lnos_of(code, module_level) ==
    LET all_lnos == sorted(code_line_numbers(code))
    IN IF ~module_level /\ Len(all_lnos) > 1 THEN Tail(all_lnos) ELSE all_lnos

RECURSIVE distance_to_header(_, _, _)
\* _distance gone wrong: a line before the header of a nested unit resolves
\* to that header as a line of the enclosing unit.
distance_to_header(code, lineno, module_level) ==
    LET subcodes == {c \in code.co_consts : ~StartsWithLt(c.co_name)}
        subcode(flno) == CHOOSE c \in subcodes : c.co_firstlineno = flno
        subcodes_flnos == SortSet({c.co_firstlineno : c \in subcodes})
        idx == bisect(subcodes_flnos, lineno)
        subcode_dist == IF idx # 0
                        THEN distance_to_header(subcode(subcodes_flnos[idx]), lineno, FALSE)
                        ELSE NoDist
        code_lnos == code_lnos_of(code, module_level)
        idx2 == bisect(code_lnos, lineno)
        actual_lno == code_lnos[idx2 + 1]
        dist == actual_lno - lineno
    IN  IF lineno \in Range(code_lnos) /\ lineno \notin Range(subcodes_flnos)
        THEN <<0, <<code.co_firstlineno, lineno>> >>
        ELSE IF idx2 = Len(code_lnos) THEN subcode_dist
        ELSE IF subcode_dist # NoDist /\ subcode_dist[1] < dist THEN subcode_dist
        ELSE <<dist, <<code.co_firstlineno, actual_lno>> >>

RECURSIVE distance(_, _, _)
\* BdbModule.get_actual_bp._distance: NoDist, or <<dist, <<firstlineno, lno>>>>.
distance(code, lineno, module_level) ==
    LET subcodes == {c \in code.co_consts : ~StartsWithLt(c.co_name)}
        subcode(flno) == CHOOSE c \in subcodes : c.co_firstlineno = flno
        subcodes_flnos == SortSet({c.co_firstlineno : c \in subcodes})
        idx == bisect(subcodes_flnos, lineno)
        subcode_dist == IF idx # 0
                        THEN distance(subcode(subcodes_flnos[idx]), lineno, FALSE)
                        ELSE NoDist
        code_lnos == code_lnos_of(code, module_level)
        idx2 == bisect(code_lnos, lineno)
        actual_lno == code_lnos[idx2 + 1]
        dist == actual_lno - lineno
    IN  IF lineno \in Range(code_lnos) /\ lineno \notin Range(subcodes_flnos)
        THEN <<0, <<code.co_firstlineno, lineno>> >>
        ELSE IF idx2 = Len(code_lnos) THEN subcode_dist
        ELSE IF subcode_dist # NoDist /\ subcode_dist[1] < dist THEN subcode_dist
        ELSE IF actual_lno \notin Range(subcodes_flnos)
             THEN <<dist, <<code.co_firstlineno, actual_lno>> >>
             ELSE distance(subcode(actual_lno), lineno, FALSE)

\* The source error of get_actual_bp: 'line ... is after the last valid statement'.
BdbSourceError == "BdbSourceError"
BdbSyntaxError == "BdbSyntaxError"
\* A module that has no code object (BdbModule.code is None).
NoCode == [co_name |-> "None", co_firstlineno |-> 0, co_lnotab |-> << >>, co_consts |-> {}]

\* BdbModule.get_actual_bp(lineno) on a module whose code object is code:
\* the address <<firstlineno, actual_lno>>, or <<>> when BdbSourceError is raised.
\* The end of get_actual_bp: 'not code_dist' raises, else code_dist[1].
actual_bp_of(code_dist) == IF code_dist = NoDist THEN << >> ELSE code_dist[2]

get_actual_bp(code, lineno) ==
    IF code = NoCode THEN << >> ELSE actual_bp_of(distance(code, lineno, TRUE))

(***************************************************************************)
(* The modules the resolver is run on: every nesting of def/class units    *)
(* over the lines 1..MaxLine, to the depth MaxNest.  A unit is given by    *)
(* its header line h and its body lines, inside the gap that follows h in  *)
(* the enclosing unit; a body may be empty (a one-line def).               *)
(***************************************************************************)
\* The lines after h that belong to a unit nested at h in a unit whose
\* lines are lines, and that ends before the line hi + 1.
Gap(h, lines, hi) ==
    LET later == {l \in lines : l > h}
    IN (h + 1)..(IF later = {} THEN hi ELSE Min(later) - 1)

RECURSIVE InnerUnits(_, _, _)
RECURSIVE SubUnits(_, _, _, _)
\* The units whose header is line h and whose body lies in h+1..hi.
InnerUnits(h, hi, depth) ==
    UNION { { MkCode("f", {h} \cup B, S) : S \in SubUnits(SortSet(B), B, hi, depth - 1) }
            : B \in SUBSET ((h + 1)..hi) }

\* The sets of units nested at some of the lines hs (a sequence) of a unit
\* whose lines are lines.
SubUnits(hs, lines, hi, depth) ==
    IF hs = << >> \/ depth <= 0 THEN {{}}
    ELSE LET h == Head(hs)
             rest == SubUnits(Tail(hs), lines, hi, depth)
             gap == Gap(h, lines, hi)
         IN rest \cup
            UNION { { {u} \cup r : r \in rest }
                    : u \in InnerUnits(h, IF gap = {} THEN h ELSE Max(gap), depth) }

\* The module code objects: lines M, units nested at some lines of M.
ModuleCodes ==
    UNION { { MkCode("<module>", M, S) : S \in SubUnits(SortSet(M), M, MaxLine, MaxNest) }
            : M \in (SUBSET (1..MaxLine)) \ {{}} }

(***************************************************************************)
(* The debuggee's source file and the host's line cache.  The file holds   *)
(* one of a few contents; a content is named by a string.  The identity of *)
(* a line cache entry is the content it was read from.                     *)
(***************************************************************************)
\* The canonical name of the debuggee's file, and the names it goes by.
FILE == "/w/m.py"
\* The file of the frames that call into the debuggee's file.
CALLER == "/w/t.py"

\* canonic(filename): '<...>' names unchanged, else the absolute path.
canonic(filename) ==
    CASE filename \in {"<string>"} -> filename
      [] filename \in {"m.py", "./m.py", FILE} -> FILE
      [] filename \in {"t.py", "./t.py", CALLER} -> CALLER
      [] OTHER -> filename

\* all_pathnames(abspath): the path, its form relative to the working
\* directory and that form after './'.
all_pathnames(abspath) ==
    CASE abspath = FILE -> {FILE, "m.py", "./m.py"}
      [] abspath = CALLER -> {CALLER, "t.py", "./t.py"}
      [] OTHER -> {abspath}

\*  1  x = 1                 (test_bdb.py: test_temporary_breakpoint's
\*  2  def foo():             module, after a first statement and with
\*  3      lno = 3            a second line in foo)
\*  4      return lno
\*  5  foo()
SrcFoo ==
    MkCode("<module>", {1, 2, 5}, {MkCode("foo", {2, 3, 4}, {})})

\*  1  def bar():            (test_bdb.py: test_python_issue_14912's
\*  2      lno = 2            edited module: the function moved down
\*  3  def foo(f=lambda: 0):  and calls a new one)
\*  4      def baz(): pass
\*  5      bar()
\*  6  foo()
SrcEdited ==
    MkCode("<module>", {1, 3, 6},
           {MkCode("bar", {1, 2}, {}),
            MkCode("foo", {3, 4, 5}, {MkCode("baz", {4}, {})}),
            MkCode("<lambda>", {3}, {})})

\* The contents the file can have: two that compile, one that has lines
\* and does not compile, and no lines at all.
Compilable == {"foo", "edited"}
Contents == Compilable \cup {"bad", "empty"}
\* No entry for the file in linecache.cache; BdbModule.linecache = None.
NoEntry == "absent"

\* compile(source, filename, 'exec') of a content that compiles.
compile(content) ==
    CASE content = "foo" -> SrcFoo
      [] content = "edited" -> SrcEdited

\* linecache.checkcache(): an entry whose file changed on disk is dropped.
checkcache(cache, disk) == IF cache # disk THEN NoEntry ELSE cache

\* linecache.getlines(filename): the cached entry, else the file is read
\* and cached unless it has no lines.  <<lines, cache afterwards>>.
getlines(cache, disk) ==
    IF cache # NoEntry THEN <<cache, cache>>
    ELSE IF disk = "empty" THEN <<"empty", NoEntry>>
    ELSE <<disk, disk>>

(***************************************************************************)
(* BdbModule.                                                              *)
(***************************************************************************)
\* _modules has no entry for the file.
NoModule == [present |-> FALSE, linecache |-> NoEntry, code |-> NoCode]

\* BdbModule.reset(): [m, cache, ret], ret one of "True", "False",
\* BdbSourceError, BdbSyntaxError.
BdbModule_reset(m, cache, disk) ==
    IF cache = NoEntry \/ cache # m.linecache
    THEN LET got == getlines(cache, disk)
             cleared == [m EXCEPT !.code = NoCode]
         IN IF got[1] = "empty"
            THEN [m |-> cleared, cache |-> got[2], ret |-> BdbSourceError]
            ELSE IF got[1] \notin Compilable
            THEN [m |-> cleared, cache |-> got[2], ret |-> BdbSyntaxError]
            ELSE [m |-> [cleared EXCEPT !.code = compile(got[1]), !.linecache = got[2]],
                  cache |-> got[2], ret |-> "True"]
    ELSE [m |-> m, cache |-> cache, ret |-> "False"]

\* BdbModule.get_func_lno(funcname) on a module whose source compiled to
\* code: the first line of the last 'def funcname' outside any function
\* (functions_firstlno), or None for 'function not found' (BdbSourceError).
get_func_lno(code, funcname) ==
    LET defs == {c.co_firstlineno : c \in {u \in code.co_consts :
                                              /\ ~StartsWithLt(u.co_name)
                                              /\ u.co_name = funcname}}
    IN IF defs = {} THEN None ELSE Max(defs)

(***************************************************************************)
(* ModuleBreakpoints and Breakpoint.  A registry state g is a record of    *)
(* breakpts (code firstlineno -> line -> list of breakpoints), bps (the    *)
(* Breakpoint instances, a breakpoint being named by its place in bps),    *)
(* bpbynumber and next (the class attributes of Breakpoint).               *)
(***************************************************************************)
EmptyDict == [k \in {} |-> 0]
DictDel(d, k) == [x \in (DOMAIN d) \ {k} |-> d[x]]
DictSet(d, k, v) == [x \in (DOMAIN d) \cup {k} |-> IF x = k THEN v ELSE d[x]]

\* list.remove(x): the list without its first x.
ListRemove(l, x) ==
    LET i == Min({k \in 1..Len(l) : l[k] = x})
    IN SubSeq(l, 1, i - 1) \o SubSeq(l, i + 1, Len(l))

\* Breakpoint.bpbynumber[number], for a number within the list.
Slot(bpbynumber, number) == bpbynumber[number + 1]

\* The body of add_breakpoint once get_actual_bp(bp.line) gave addr (<<>>
\* when it raised): the breakpoint is appended to the list of its address.
add_at(breakpts, bp, addr) ==
    IF addr = << >>
    THEN [raised |-> TRUE, breakpts |-> breakpts, actual_bp |-> << >>]
    ELSE LET firstlineno == addr[1]
             actual_lno == addr[2]
             line_bps == IF firstlineno \in DOMAIN breakpts
                         THEN breakpts[firstlineno] ELSE EmptyDict
             bplist == IF actual_lno \in DOMAIN line_bps
                       THEN line_bps[actual_lno] ELSE << >>
         IN [raised |-> FALSE,
             breakpts |-> DictSet(breakpts, firstlineno,
                             DictSet(line_bps, actual_lno, Append(bplist, bp))),
             actual_bp |-> addr]

\* ModuleBreakpoints.add_breakpoint(bp): [raised, breakpts, actual_bp].
add_breakpoint(breakpts, code, bp, line) ==
    add_at(breakpts, bp, get_actual_bp(code, line))

\* delete_breakpoint gone wrong: the breakpoint stays in its list.
delete_breakpoint_kept(breakpts, bp, actual_bp) == breakpts

\* ModuleBreakpoints.delete_breakpoint(bp): the new breakpts.
delete_breakpoint(breakpts, bp, actual_bp) ==
    LET firstlineno == actual_bp[1]
        actual_lno == actual_bp[2]
    IN IF firstlineno \notin DOMAIN breakpts THEN breakpts
       ELSE IF actual_lno \notin DOMAIN breakpts[firstlineno] THEN breakpts
       ELSE IF bp \notin Range(breakpts[firstlineno][actual_lno]) THEN breakpts
       ELSE LET bplist == ListRemove(breakpts[firstlineno][actual_lno], bp)
                line_bps == IF bplist = << >>
                            THEN DictDel(breakpts[firstlineno], actual_lno)
                            ELSE DictSet(breakpts[firstlineno], actual_lno, bplist)
            IN IF DOMAIN line_bps = {} THEN DictDel(breakpts, firstlineno)
               ELSE DictSet(breakpts, firstlineno, line_bps)

\* The breakpoints held by breakpts, as a set.
Stored(breakpts) ==
    UNION {UNION {Range(breakpts[f][l]) : l \in DOMAIN breakpts[f]} : f \in DOMAIN breakpts}

\* sorted(bpts, key=attrgetter('number')).
RECURSIVE SortByNumber(_, _)
SortByNumber(S, bps) ==
    IF S = {} THEN << >>
    ELSE LET b == CHOOSE x \in S : \A y \in S : bps[x].number <= bps[y].number
         IN <<b>> \o SortByNumber(S \ {b}, bps)

\* ModuleBreakpoints.all_breakpoints().
all_breakpoints(breakpts, bps) == SortByNumber(Stored(breakpts), bps)

\* ModuleBreakpoints.get_breakpoints(lineno).
get_breakpoints_at(breakpts, bps, addr, lineno) ==
    IF addr = << >> THEN << >>
    ELSE IF addr[1] \notin DOMAIN breakpts THEN << >>
    ELSE IF addr[2] \notin DOMAIN breakpts[addr[1]] THEN << >>
    ELSE SortByNumber({b \in Range(breakpts[addr[1]][addr[2]]) : bps[b].line = lineno}, bps)

get_breakpoints(breakpts, bps, code, lineno) ==
    get_breakpoints_at(breakpts, bps, get_actual_bp(code, lineno), lineno)

\* Breakpoint.deleteMe().
deleteMe(g, bp) ==
    IF Slot(g.bpbynumber, g.bps[bp].number) # None
    THEN [g EXCEPT !.bpbynumber[g.bps[bp].number + 1] = None,
                   !.breakpts = delete_breakpoint(g.breakpts, bp, g.bps[bp].actual_bp)]
    ELSE g

RECURSIVE DeleteAll(_, _)
\* for bp in bplist: bp.deleteMe()
DeleteAll(g, bplist) ==
    IF bplist = << >> THEN g ELSE DeleteAll(deleteMe(g, Head(bplist)), Tail(bplist))

\* Breakpoint.__init__ gone wrong: the number of a deleted breakpoint is
\* given again.
init_added_reused(g, added, file, line, temporary, cond) ==
    IF added.raised THEN [raised |-> TRUE, g |-> g]
    ELSE LET free == {n \in 1..(Len(g.bpbynumber) - 1) : g.bpbynumber[n + 1] = None}
             number == IF free = {} THEN g.next ELSE Min(free)
         IN [raised |-> FALSE,
             g |-> [g EXCEPT
                 !.breakpts = added.breakpts,
                 !.bps = Append(g.bps,
                     [file |-> file, line |-> line, actual_bp |-> added.actual_bp,
                      temporary |-> temporary, cond |-> cond, enabled |-> TRUE,
                      ignore |-> 0, hits |-> 0, number |-> number]),
                 !.next = g.next + 1,
                 !.bpbynumber = Append(IF free = {} THEN g.bpbynumber
                                       ELSE [g.bpbynumber EXCEPT ![number + 1] = None],
                                       Len(g.bps) + 1)]]

\* Breakpoint.__init__(file, line, module, temporary, cond): [raised, g].
\* The rest of Breakpoint.__init__ after module.add_breakpoint(self) gave
\* added: the attributes, the number, the append to bpbynumber.
init_added(g, added, file, line, temporary, cond) ==
    IF added.raised THEN [raised |-> TRUE, g |-> g]
    ELSE [raised |-> FALSE,
          g |-> [g EXCEPT
              !.breakpts = added.breakpts,
              !.bps = Append(g.bps,
                  [file |-> file, line |-> line, actual_bp |-> added.actual_bp,
                   temporary |-> temporary, cond |-> cond, enabled |-> TRUE,
                   ignore |-> 0, hits |-> 0, number |-> g.next]),
              !.next = g.next + 1,
              !.bpbynumber = Append(g.bpbynumber, Len(g.bps) + 1)]]

Breakpoint_init(g, code, file, line, temporary, cond) ==
    init_added(g, add_breakpoint(g.breakpts, code, Len(g.bps) + 1, line),
               file, line, temporary, cond)

\* The loop of reset gone wrong: a breakpoint that cannot be added again is
\* left alone instead of deleted.
readd_one_kept(g, bp, added) ==
    IF added.raised THEN g
    ELSE [g EXCEPT !.breakpts = added.breakpts, !.bps[bp].actual_bp = added.actual_bp]

\* One turn of that loop, add_breakpoint(bp) having given added:
\* 'except BdbSourceError: bp.deleteMe()'.
readd_one(g, bp, added) ==
    IF added.raised THEN deleteMe(g, bp)
    ELSE [g EXCEPT !.breakpts = added.breakpts, !.bps[bp].actual_bp = added.actual_bp]

RECURSIVE ReAdd(_, _, _)
\* The loop of ModuleBreakpoints.reset over bplist: each breakpoint is added
\* again under the address of its line in code, or deleted.
ReAdd(g, code, bplist) ==
    IF bplist = << >> THEN g
    ELSE ReAdd(readd_one(g, Head(bplist),
                         add_breakpoint(g.breakpts, code, Head(bplist),
                                        g.bps[Head(bplist)].line)),
               code, Tail(bplist))

\* ModuleBreakpoints.reset(): [g, m, cache, raised]; raised is "" or the
\* BdbSyntaxError that BdbModule.reset let through.
reset_with(g, r) ==
    IF r.ret = BdbSyntaxError
    THEN [g |-> g, m |-> r.m, cache |-> r.cache, raised |-> BdbSyntaxError]
    ELSE [g |-> IF r.ret \in {"True", BdbSourceError}
                THEN ReAdd([g EXCEPT !.breakpts = EmptyDict], r.m.code,
                           all_breakpoints(g.breakpts, g.bps))
                ELSE g,
          m |-> r.m, cache |-> r.cache, raised |-> ""]

ModuleBreakpoints_reset(g, m, cache, disk) ==
    reset_with(g, BdbModule_reset(m, cache, disk))

RECURSIVE ResetEach(_, _)
\* for module_bpts in self.breakpoints.values(): module_bpts.reset(), the
\* values being k references to the one ModuleBreakpoints of the file.
ResetEach(st, k) ==
    IF k = 0 \/ st.raised # "" THEN st
    ELSE ResetEach(ModuleBreakpoints_reset(st.g, st.m, st.cache, st.disk)
                       @@ [disk |-> st.disk], k - 1)

\* Python's list[number]: <<"ok", item>> or <<"IndexError", None>>.
ListIndex(l, number) ==
    IF 0 <= number /\ number < Len(l) THEN <<"ok", l[number + 1]>>
    ELSE IF -Len(l) <= number /\ number < 0 THEN <<"ok", l[Len(l) + number + 1]>>
    ELSE <<"IndexError", None>>

\* The arguments of get_bpbynumber: nothing, a string that is no number,
\* an integer.
NoArg == [t |-> "none", v |-> 0]
StrArg == [t |-> "str", v |-> 0]
IntArg(n) == [t |-> "int", v |-> n]

\* Bdb.get_bpbynumber(arg): [err, bp], err "" or the ValueError's message.
get_bpbynumber(bpbynumber, arg) ==
    IF arg.t = "none" \/ (arg.t = "int" /\ arg.v = 0)
    THEN [err |-> "Breakpoint number expected", bp |-> None]
    ELSE IF arg.t = "str"
    THEN [err |-> "Non-numeric breakpoint number", bp |-> None]
    ELSE LET got == ListIndex(bpbynumber, arg.v)
         IN IF got[1] = "IndexError"
            THEN [err |-> "Breakpoint number out of range", bp |-> None]
            ELSE IF got[2] = None
            THEN [err |-> "Breakpoint already deleted", bp |-> None]
            ELSE [err |-> "", bp |-> got[2]]

\* Bdb.has_breaks().
has_breaks(breakpoints, breakpts) == breakpoints # {} /\ DOMAIN breakpts # {}

(***************************************************************************)
(* State.                                                                  *)
(***************************************************************************)
VARIABLES
    rcode,      \* the resolver's module code object
    rline,      \* the requested line
    rres,       \* the outcome of get_actual_bp once called
    disk,       \* the content of the debuggee's file
    cache,      \* linecache.cache's entry for the file
    bdb_module, \* _modules' BdbModule of the file
    breakpoints,\* the keys of Bdb.breakpoints: path names of the file
    breakpts,   \* ModuleBreakpoints.breakpts of the file
    bps,        \* the Breakpoint instances ever created
    bpbynumber, \* Breakpoint.bpbynumber: slot 0, then one slot per number
    next,       \* Breakpoint.next
    result,     \* the outcome of the last registry operation
    stack,      \* the debuggee's frames, the oldest first
    tracing,    \* sys.gettrace() is Bdb.trace_dispatch
    stopframe_lno, \* Bdb.stopframe_lno
    botframe,   \* Bdb.botframe
    topframe,   \* Bdb.topframe
    quitting,   \* Bdb.quitting
    ignore_first_call_event, \* Bdb.ignore_first_call_event
    skip,       \* Bdb.skip
    pc,         \* where the session is: "idle", "run", "user", "done"
    last,       \* the last debug event and what the dispatcher made of it
    gdb         \* the GdbSocket of spawn_gdb, its context and its traffic

rvars == <<rcode, rline, rres>>
regvars == <<disk, cache, bdb_module, breakpoints, breakpts, bps, bpbynumber, next, result>>
dbgvars == <<stack, tracing, stopframe_lno, botframe, topframe, quitting,
             ignore_first_call_event, skip, pc, last>>
vars == <<rvars, regvars, dbgvars, gdb>>

\* An optional value: None, or the value x.
Nothing == << >>
Some(x) == <<x>>

\* No gdb was spawned.
NoGdb ==
    [phase |-> "none", ctx |-> FALSE, verbose |-> FALSE, state |-> "ST_INIT",
     error |-> Nothing, gdb_version |-> Nothing,
     stmt |-> [line |-> << >>, lines |-> {}, skipping |-> FALSE],
     result |-> [attach_cnt |-> 0, retries |-> << >>],
     received |-> << >>, pushed |-> << >>, returned |-> Nothing]


\* The registry state as one record, and the step that installs one.
Reg == [breakpts |-> breakpts, bps |-> bps, bpbynumber |-> bpbynumber, next |-> next]
SetReg(g) ==
    /\ breakpts' = g.breakpts
    /\ bps' = g.bps
    /\ bpbynumber' = g.bpbynumber
    /\ next' = g.next

\* The outcome of an operation: its name, what it returned or raised ("" for
\* None or a breakpoint), and the breakpoint it made or deleted.
Outcome(op, ret, bp) == [op |-> op, ret |-> ret, bp |-> bp]

(***************************************************************************)
(* The resolver alone.                                                     *)
(***************************************************************************)
\* No resolver call is modelled: the idle value of its variables.
ResolveIdle ==
    /\ rcode = NoCode
    /\ rline = 0
    /\ rres = [done |-> FALSE, addr |-> << >>]

\* No event was dispatched yet.
NoEvent == [event |-> "", frame |-> 0, stop |-> FALSE, hits |-> << >>, cleared |-> FALSE,
            evals |-> << >>, user |-> ""]

\* No session is modelled: Bdb.__init__() without skip, nothing run.
DbgIdle ==
    /\ stack = << >>
    /\ tracing = FALSE
    /\ stopframe_lno = <<None, 0>>
    /\ botframe = None
    /\ topframe = None
    /\ quitting = FALSE
    /\ ignore_first_call_event = TRUE
    /\ skip = {}
    /\ pc = "idle"
    /\ last = NoEvent

\* The registry before any module is loaded and any breakpoint is set.
RegInit ==
    /\ disk = "foo"
    /\ cache = NoEntry
    /\ bdb_module = NoModule
    /\ breakpoints = {}
    /\ breakpts = EmptyDict
    /\ bps = << >>
    /\ bpbynumber = <<None>>
    /\ next = 1
    /\ result = Outcome("init", "", None)

ResolveInit ==
    /\ gdb = NoGdb
    /\ rcode \in ModuleCodes
    /\ rline \in 0..(MaxLine + 1)
    /\ rres = [done |-> FALSE, addr |-> << >>]
    /\ RegInit
    /\ DbgIdle

\* One call of BdbModule.get_actual_bp(rline).
Resolve ==
    /\ ~rres.done
    /\ rres' = [done |-> TRUE, addr |-> get_actual_bp(rcode, rline)]
    /\ UNCHANGED <<rcode, rline, regvars, dbgvars, gdb>>

ResolveNext == Resolve

SpecResolve == ResolveInit /\ [][ResolveNext]_vars

(***************************************************************************)
(* The breakpoint registry: Bdb's operations on breakpoints.               *)
(***************************************************************************)
\* The end of set_break gone wrong: the file is registered although
\* Breakpoint(...) raised.
set_break_made_file_listed(g, mm, cc, bpoints, filename, new) ==
    IF new.raised
    THEN [g |-> g, m |-> mm, cache |-> cc,
          breakpoints |-> bpoints \cup all_pathnames(filename),
          raised |-> BdbSourceError, bp |-> None]
    ELSE [g |-> new.g, m |-> mm, cache |-> cc,
          breakpoints |-> bpoints \cup all_pathnames(filename),
          raised |-> "", bp |-> Len(new.g.bps)]

\* The end of Bdb.set_break once Breakpoint(...) gave new.
set_break_made(g, mm, cc, bpoints, filename, new) ==
    IF new.raised
    THEN [g |-> g, m |-> mm, cache |-> cc, breakpoints |-> bpoints,
          raised |-> BdbSourceError, bp |-> None]
    ELSE [g |-> new.g, m |-> mm, cache |-> cc,
          breakpoints |-> bpoints \cup all_pathnames(filename),
          raised |-> "", bp |-> Len(new.g.bps)]

\* Bdb.set_break from 'if filename not in self.breakpoints' on, made being
\* the outcome of ModuleBreakpoints(filename) when the file has no entry.
set_break_module(g, m, cch, bpoints, filename, lineno, temporary, cond, made) ==
    IF filename \notin bpoints /\ made.ret \in {BdbSourceError, BdbSyntaxError}
    THEN [g |-> g, m |-> m, cache |-> made.cache, breakpoints |-> bpoints,
          raised |-> made.ret, bp |-> None]
    ELSE IF filename \notin bpoints
    THEN set_break_made(g, made.m, made.cache, bpoints, filename,
             Breakpoint_init(g, made.m.code, filename, lineno, temporary, cond))
    ELSE set_break_made(g, m, cch, bpoints, filename,
             Breakpoint_init(g, m.code, filename, lineno, temporary, cond))

\* The registry part of Bdb.set_break(fname, lineno, temporary, cond):
\* [g, m, cache, breakpoints, raised, bp].  ModuleBreakpoints(filename)
\* makes the BdbModule on first use.
set_break_registry(g, m, cch, dsk, bpoints, fname, lineno, temporary, cond) ==
    set_break_module(g, m, cch, bpoints, canonic(fname), lineno, temporary, cond,
        IF m.present THEN [m |-> m, cache |-> cch, ret |-> "False"]
        ELSE BdbModule_reset([present |-> TRUE, linecache |-> NoEntry,
                              code |-> NoCode], cch, dsk))

\* The frames the loop that ends Bdb.set_break visits: from topframe down
\* to botframe, none when topframe is None.
Tagged(stk, top, bot, k) ==
    top # None /\ k \in (IF bot \in 1..top THEN bot ELSE 1)..top

\* Bdb.set_break(fname, lineno, temporary, cond).  A frame of the stack is
\* [code, name, f_lineno, f_trace], code being <<co_filename, co_firstlineno>>
\* and name the __name__ of its globals.
set_break(fname, lineno, temporary, cond) ==
    \E r \in {set_break_registry(Reg, bdb_module, cache, disk, breakpoints,
                                 fname, lineno, temporary, cond)} :
       /\ SetReg(r.g)
       /\ bdb_module' = r.m
       /\ cache' = r.cache
       /\ breakpoints' = r.breakpoints
       /\ result' = Outcome("set_break", r.raised, r.bp)
       /\ stack' = [k \in DOMAIN stack |->
                       IF /\ r.raised = ""
                          /\ Tagged(stack, topframe, botframe, k)
                          /\ stack[k].code = <<canonic(fname), r.g.bps[r.bp].actual_bp[1]>>
                       THEN [stack[k] EXCEPT !.f_trace = TRUE]
                       ELSE stack[k]]
       /\ UNCHANGED disk

\* The error a failed set_break leaves, the module and the cache being
\* what ModuleBreakpoints(filename) made of them.
set_break_failed(m, cch, raised) ==
    /\ bdb_module' = m
    /\ cache' = cch
    /\ result' = Outcome("set_break funcname", raised, None)
    /\ UNCHANGED <<breakpts, bps, bpbynumber, next, breakpoints, disk, stack>>

\* The errors of get_func_lno on a module without code object: its source
\* has no lines and the function is not found, or it has lines that do not
\* compile and whatever 'def' the tokenizer finds or raises on, Breakpoint()
\* then fails in get_actual_bp.
NoCodeErrors(cch) ==
    IF cch = NoEntry THEN {BdbSourceError} ELSE {BdbSourceError, "TokenError"}

\* Bdb.set_break(fname, None, temporary, cond, funcname): the line is the
\* one get_func_lno gives on the module of the file.
set_break_funcname(fname, funcname, temporary, cond) ==
    \E made \in {IF bdb_module.present
                 THEN [m |-> bdb_module, cache |-> cache, ret |-> "False"]
                 ELSE BdbModule_reset([present |-> TRUE, linecache |-> NoEntry,
                                       code |-> NoCode], cache, disk)} :
       IF made.ret \in {BdbSourceError, BdbSyntaxError}
       THEN set_break_failed(bdb_module, made.cache, made.ret)
       ELSE IF made.m.code = NoCode
       THEN \E raised \in NoCodeErrors(made.cache) :
               set_break_failed(made.m, made.cache, raised)
       ELSE IF get_func_lno(made.m.code, funcname) = None
       THEN set_break_failed(made.m, made.cache, BdbSourceError)
       ELSE set_break(fname, get_func_lno(made.m.code, funcname), temporary, cond)

\* Bdb.get_breaks(filename, lineno).
get_breaks(fname, lineno) ==
    IF canonic(fname) \in breakpoints
    THEN get_breakpoints(breakpts, bps, bdb_module.code, lineno)
    ELSE << >>

\* Bdb.clear_break(filename, lineno).
clear_break(fname, lineno) ==
    \E bplist \in {get_breaks(fname, lineno)} :
       /\ IF bplist = << >>
          THEN /\ result' = Outcome("clear_break", "There is no breakpoint", None)
               /\ UNCHANGED <<breakpts, bps, bpbynumber, next>>
          ELSE /\ result' = Outcome("clear_break", "", None)
               /\ SetReg(DeleteAll(Reg, bplist))
       /\ UNCHANGED <<disk, cache, bdb_module, breakpoints>>

\* Bdb.clear_bpbynumber(arg).
clear_bpbynumber(arg) ==
    \E got \in {get_bpbynumber(bpbynumber, arg)} :
       /\ IF got.err # ""
          THEN /\ result' = Outcome("clear_bpbynumber", got.err, None)
               /\ UNCHANGED <<breakpts, bps, bpbynumber, next>>
          ELSE /\ result' = Outcome("clear_bpbynumber", "", got.bp)
               /\ SetReg(deleteMe(Reg, got.bp))
       /\ UNCHANGED <<disk, cache, bdb_module, breakpoints>>

\* Bdb.clear_all_breaks().
clear_all_breaks ==
    /\ IF ~has_breaks(breakpoints, breakpts)
       THEN /\ result' = Outcome("clear_all_breaks", "There are no breakpoints", None)
            /\ UNCHANGED <<breakpts, bps, bpbynumber, next>>
       ELSE /\ result' = Outcome("clear_all_breaks", "", None)
            /\ SetReg(DeleteAll(Reg, SelectSeq(bpbynumber, LAMBDA b : b # None)))
    /\ UNCHANGED <<disk, cache, bdb_module, breakpoints>>

\* Bdb.restart().
restart ==
    \E st \in {ResetEach([g |-> Reg, m |-> bdb_module,
                           cache |-> checkcache(cache, disk),
                           raised |-> "", disk |-> disk],
                          Cardinality(breakpoints))} :
       /\ SetReg(st.g)
       /\ bdb_module' = st.m
       /\ cache' = st.cache
       /\ result' = Outcome("restart", st.raised, None)
       /\ UNCHANGED <<disk, breakpoints>>

\* Breakpoint.enable() / Breakpoint.disable() of the breakpoint numbered n.
enable(n) ==
    /\ Slot(bpbynumber, n) # None
    /\ bps' = [bps EXCEPT ![Slot(bpbynumber, n)].enabled = TRUE]
    /\ UNCHANGED <<disk, cache, bdb_module, breakpoints, breakpts, bpbynumber, next, result>>

disable(n) ==
    /\ Slot(bpbynumber, n) # None
    /\ bps' = [bps EXCEPT ![Slot(bpbynumber, n)].enabled = FALSE]
    /\ UNCHANGED <<disk, cache, bdb_module, breakpoints, breakpts, bpbynumber, next, result>>

\* The source file is edited: its content becomes c.
Edit(c) ==
    /\ c # disk
    /\ disk' = c
    /\ UNCHANGED <<cache, bdb_module, breakpoints, breakpts, bps, bpbynumber, next, result>>

\* Most breakpoints created in a run of the model.
MaxBps == 2
\* The lines a breakpoint is requested at.
BreakLines == {2, 5, 6}
\* The function names a breakpoint is requested at.
FuncNames == {"foo", "nope"}
\* The arguments given to clear_bpbynumber: every index of bpbynumber, from
\* the back and from the front, and one past each end.
NumberArgs == {NoArg, StrArg} \cup {IntArg(n) : n \in (-(next + 1))..next}

BreaksInit == RegInit /\ ResolveIdle /\ DbgIdle /\ gdb = NoGdb

\* No session runs and no resolver call is made beside the registry's.
NoSession == UNCHANGED <<rvars, gdb, dbgvars>>

BreaksNext ==
    \/ \E lineno \in BreakLines :
          next <= MaxBps /\ set_break("m.py", lineno, FALSE, "") /\ NoSession
    \/ \E lineno \in BreakLines : clear_break(FILE, lineno) /\ NoSession
    \/ \E arg \in NumberArgs : clear_bpbynumber(arg) /\ NoSession
    \/ clear_all_breaks /\ NoSession
    \/ restart /\ NoSession
    \/ \E n \in 1..(Len(bpbynumber) - 1) : enable(n) /\ NoSession
    \/ \E n \in 1..(Len(bpbynumber) - 1) : disable(n) /\ NoSession
    \/ \E c \in Contents : Edit(c) /\ NoSession

SpecBreaks == BreaksInit /\ [][BreaksNext]_vars

\* Breakpoints set by line and by function name on a file that is edited
\* and read again.
FuncBreaksNext ==
    \/ \E lineno \in BreakLines :
          next <= MaxBps /\ set_break("m.py", lineno, FALSE, "") /\ NoSession
    \/ \E funcname \in FuncNames :
          /\ next <= MaxBps
          /\ set_break_funcname("m.py", funcname, FALSE, "")
          /\ UNCHANGED <<rvars, gdb, tracing, stopframe_lno, botframe, topframe, quitting,
                         ignore_first_call_event, skip, pc, last>>
    \/ restart /\ NoSession
    \/ \E c \in Contents : Edit(c) /\ NoSession

SpecFuncBreaks == BreaksInit /\ [][FuncBreaksNext]_vars

(***************************************************************************)
(* restart() after edits, from registries in use.                          *)
(***************************************************************************)
\* What a breakpoint has been through since it was set: its hit count, its
\* ignore count and whether it is enabled.
Attrs ==
    { [hits |-> 0, ignore |-> 0, enabled |-> TRUE],
      [hits |-> 1, ignore |-> 0, enabled |-> FALSE],
      [hits |-> 2, ignore |-> 1, enabled |-> TRUE] }

\* The registry of a debugger on which nothing was done.
Fresh ==
    [g |-> [breakpts |-> EmptyDict, bps |-> << >>, bpbynumber |-> <<None>>, next |-> 1],
     m |-> NoModule, cache |-> NoEntry, breakpoints |-> {}, raised |-> "", bp |-> None]

\* One more set_break("m.py", line) on the registry st.
set_break_after(st, line) ==
    set_break_registry(st.g, st.m, st.cache, "foo", st.breakpoints, "m.py", line, FALSE, "")

RECURSIVE SetBreaks(_)
\* set_break("m.py", line) for each line of lines, on the first content.
SetBreaks(lines) ==
    IF lines = << >> THEN Fresh
    ELSE set_break_after(SetBreaks(SubSeq(lines, 1, Len(lines) - 1)), lines[Len(lines)])

\* The breakpoints of g after use: breakpoint b has the attributes at[b].
Used(g, at) ==
    [g EXCEPT !.bps = [b \in 1..Len(g.bps) |->
        [g.bps[b] EXCEPT !.hits = at[b].hits, !.ignore = at[b].ignore,
                         !.enabled = at[b].enabled]]]

RestartInit ==
    /\ gdb = NoGdb
    /\ ResolveIdle
    /\ DbgIdle
    /\ disk = "foo"
    /\ result = Outcome("init", "", None)
    /\ \E lines \in UNION {[1..k -> BreakLines] : k \in 1..MaxBps} :
         \E st \in {SetBreaks(lines)} :
           \E at \in [1..Len(st.g.bps) -> Attrs] :
              /\ cache = st.cache
              /\ bdb_module = st.m
              /\ breakpoints = st.breakpoints
              /\ \E g \in {Used(st.g, at)} :
                    /\ breakpts = g.breakpts
                    /\ bps = g.bps
                    /\ bpbynumber = g.bpbynumber
                    /\ next = g.next

RestartNext ==
    \/ \E c \in Contents : Edit(c) /\ NoSession
    \/ restart /\ NoSession
    \/ \E n \in 1..(Len(bpbynumber) - 1) : clear_bpbynumber(IntArg(n)) /\ NoSession

SpecRestart == RestartInit /\ [][RestartNext]_vars

(***************************************************************************)
(* The debuggee of a session: runcall(dbg_module), dbg_module importing    *)
(* the module of the file, whose last line calls foo.  A frame is named by *)
(* its depth in the stack; a frame that has returned is Gone.              *)
(***************************************************************************)
\* A frame object that is no longer on the stack.
Gone == 0 - 1

\* fnmatch.fnmatch(name, pat) on names and patterns given as sequences of
\* characters: '*' matches any run of characters, '?' any one character.
RECURSIVE fnmatch(_, _)
fnmatch(name, pat) ==
    IF pat = << >> THEN name = << >>
    ELSE IF Head(pat) = "*"
    THEN fnmatch(name, Tail(pat)) \/ (name # << >> /\ fnmatch(Tail(name), pat))
    ELSE /\ name # << >>
         /\ Head(pat) \in {"?", Head(name)}
         /\ fnmatch(Tail(name), Tail(pat))

\* The code units that run: the file they are in, the __name__ of their
\* globals, their first line, the lines they execute and the unit they call.
\* runner is the method of Bdb that runs the debuggee (run, runeval or
\* runcall): the call at its line 2, its 'finally' clause at line 3.
Units ==
    [ dbg_module |-> [co_filename |-> CALLER, name |-> <<"t">>,
                      co_firstlineno |-> 1, lines |-> {2, 3},
                      callsite |-> 2, calls |-> "module"],
      module     |-> [co_filename |-> FILE, name |-> <<"m">>,
                      co_firstlineno |-> SrcFoo.co_firstlineno,
                      lines |-> Range(code_lnos_of(SrcFoo, TRUE)),
                      callsite |-> 5, calls |-> "foo"],
      foo        |-> [co_filename |-> FILE, name |-> <<"m">>,
                      co_firstlineno |-> 2,
                      lines |-> UNION {Range(code_lnos_of(c, FALSE)) : c \in SrcFoo.co_consts},
                      callsite |-> 0, calls |-> ""],
      runner     |-> [co_filename |-> "bdb.py", name |-> <<"b">>,
                      co_firstlineno |-> 1, lines |-> {3},
                      callsite |-> 2, calls |-> "dbg_module"] ]

\* The skip sets a debugger is made with.
SkipSets == { {}, {<<"m", "*">>}, {<<"?">>} }

\* The debugger's own state as one record, and the step that installs one.
Dbg ==
    [stack |-> stack, tracing |-> tracing, stopframe_lno |-> stopframe_lno,
     botframe |-> botframe, topframe |-> topframe, quitting |-> quitting,
     ignore_first_call_event |-> ignore_first_call_event]
SetDbg(d) ==
    /\ stack' = d.stack
    /\ tracing' = d.tracing
    /\ stopframe_lno' = d.stopframe_lno
    /\ botframe' = d.botframe
    /\ topframe' = d.topframe
    /\ quitting' = d.quitting
    /\ ignore_first_call_event' = d.ignore_first_call_event

\* Bdb.is_skipped_module(module_name).
is_skipped_module(skp, module_name) == \E pattern \in skp : fnmatch(module_name, pattern)

\* stop_here gone wrong: the skip set is not looked at.
stop_here_unskipped(d, skp, f) ==
    IF f = d.stopframe_lno[1] \/ d.stopframe_lno[1] = None
    THEN IF d.stopframe_lno[2] = 0 - 1 THEN FALSE
         ELSE d.stack[f].f_lineno >= d.stopframe_lno[2]
    ELSE FALSE

\* stop_here gone wrong: the frames called from the stop frame stop too.
stop_here_in_callees(d, skp, f) ==
    IF skp # {} /\ is_skipped_module(skp, d.stack[f].name) THEN FALSE
    ELSE IF f >= d.stopframe_lno[1] \/ d.stopframe_lno[1] = None
    THEN IF d.stopframe_lno[2] = 0 - 1 THEN FALSE
         ELSE d.stack[f].f_lineno >= d.stopframe_lno[2]
    ELSE FALSE

\* stop_here gone wrong: the line of the stepping state is not compared.
stop_here_any_line(d, skp, f) ==
    IF skp # {} /\ is_skipped_module(skp, d.stack[f].name) THEN FALSE
    ELSE IF f = d.stopframe_lno[1] \/ d.stopframe_lno[1] = None
    THEN d.stopframe_lno[2] # 0 - 1
    ELSE FALSE

\* stop_here gone wrong: lineno = -1 is compared as any other line.
stop_here_minus_one_compared(d, skp, f) ==
    IF skp # {} /\ is_skipped_module(skp, d.stack[f].name) THEN FALSE
    ELSE IF f = d.stopframe_lno[1] \/ d.stopframe_lno[1] = None
    THEN d.stack[f].f_lineno >= d.stopframe_lno[2]
    ELSE FALSE

\* stop_here gone wrong: the line must be past the line of the state.
stop_here_past_line(d, skp, f) ==
    IF skp # {} /\ is_skipped_module(skp, d.stack[f].name) THEN FALSE
    ELSE IF f = d.stopframe_lno[1] \/ d.stopframe_lno[1] = None
    THEN IF d.stopframe_lno[2] = 0 - 1 THEN FALSE
         ELSE d.stack[f].f_lineno > d.stopframe_lno[2]
    ELSE FALSE

\* stop_here gone wrong: under (None, 0) only the bottom frame stops.
stop_here_botframe_only(d, skp, f) ==
    IF skp # {} /\ is_skipped_module(skp, d.stack[f].name) THEN FALSE
    ELSE IF f = d.stopframe_lno[1] \/ (d.stopframe_lno[1] = None /\ f <= Max({1, d.botframe}))
    THEN IF d.stopframe_lno[2] = 0 - 1 THEN FALSE
         ELSE d.stack[f].f_lineno >= d.stopframe_lno[2]
    ELSE FALSE

\* Bdb.stop_here(frame), frame being the frame at depth f of d.stack.
stop_here(d, skp, f) ==
    IF skp # {} /\ is_skipped_module(skp, d.stack[f].name) THEN FALSE
    ELSE IF f = d.stopframe_lno[1] \/ d.stopframe_lno[1] = None
    THEN IF d.stopframe_lno[2] = 0 - 1 THEN FALSE
         ELSE d.stack[f].f_lineno >= d.stopframe_lno[2]
    ELSE FALSE

\* break_at_function gone wrong: the file of the frame is not looked at.
break_at_function_any_file(bpoints, bpts, fr) == fr.code[2] \in DOMAIN bpts

\* Bdb.break_at_function(frame).
break_at_function(bpoints, bpts, fr) ==
    /\ fr.code[1] \in bpoints
    /\ fr.code[2] \in DOMAIN bpts

\* _set_stopinfo gone wrong: the stop frame gets no local trace function.
_set_stopinfo_untraced(d, stopframe, lineno) ==
    LET met == IF stopframe = None \/ d.topframe = None THEN stopframe
               ELSE IF /\ d.botframe \in 1..d.topframe
                       /\ (stopframe \notin 1..d.topframe \/ d.botframe > stopframe)
               THEN d.botframe
               ELSE stopframe
    IN [d EXCEPT !.stopframe_lno = <<met, lineno>>]

\* Bdb._set_stopinfo((stopframe, lineno)): the walk from topframe towards
\* stopframe ends at botframe, and the stop frame gets a local trace function.
_set_stopinfo(d, stopframe, lineno) ==
    LET met == IF stopframe = None \/ d.topframe = None THEN stopframe
               ELSE IF /\ d.botframe \in 1..d.topframe
                       /\ (stopframe \notin 1..d.topframe \/ d.botframe > stopframe)
               THEN d.botframe
               ELSE stopframe
    IN [d EXCEPT !.stopframe_lno = <<met, lineno>>,
                 !.stack = [k \in DOMAIN d.stack |->
                               IF k = met THEN [d.stack[k] EXCEPT !.f_trace = TRUE]
                               ELSE d.stack[k]]]

\* _stop_tracing gone wrong: the trace function is switched, off when it
\* was on and on when it was off.
_stop_tracing_toggles(d) ==
    LET low == IF d.botframe \in 1..d.topframe THEN d.botframe ELSE 1
    IN [d EXCEPT !.tracing = ~d.tracing,
                 !.stack = [k \in DOMAIN d.stack |->
                               IF d.topframe # None /\ k \in low..d.topframe
                               THEN [d.stack[k] EXCEPT !.f_trace = FALSE]
                               ELSE d.stack[k]]]

\* Bdb._stop_tracing(): sys.settrace(None), and the local trace functions
\* are deleted from topframe down to botframe.
_stop_tracing(d) ==
    LET low == IF d.botframe \in 1..d.topframe THEN d.botframe ELSE 1
    IN [d EXCEPT !.tracing = FALSE,
                 !.stack = [k \in DOMAIN d.stack |->
                               IF d.topframe # None /\ k \in low..d.topframe
                               THEN [d.stack[k] EXCEPT !.f_trace = FALSE]
                               ELSE d.stack[k]]]

\* set_quit gone wrong: quitting is set and tracing is left installed.
set_quit_keeps_tracing(d) == [d EXCEPT !.quitting = TRUE]

\* Bdb.set_quit().
set_quit(d) == _stop_tracing([d EXCEPT !.quitting = TRUE])

\* The commands that give control back to the debuggee, frame being the
\* frame of the callback: set_step, set_next, set_return, set_until,
\* set_continue, set_quit.
Commands == {"step", "next", "return", "until", "continue", "quit"}

\* set_continue gone wrong: tracing stays installed without breakpoints.
set_command_continue_traced(d, cmd, frame, breaks) ==
    CASE cmd = "step" -> _set_stopinfo(d, None, 0)
      [] cmd = "next" -> _set_stopinfo(d, frame, 0)
      [] cmd = "return" -> _set_stopinfo(d, frame, 0 - 1)
      [] cmd = "until" -> _set_stopinfo(d, frame, d.stack[frame].f_lineno + 1)
      [] cmd = "continue" -> _set_stopinfo(d, None, 0 - 1)
      [] cmd = "quit" -> set_quit(d)

set_command(d, cmd, frame, breaks) ==
    CASE cmd = "step" -> _set_stopinfo(d, None, 0)
      [] cmd = "next" -> _set_stopinfo(d, frame, 0)
      [] cmd = "return" -> _set_stopinfo(d, frame, 0 - 1)
      [] cmd = "until" -> _set_stopinfo(d, frame, d.stack[frame].f_lineno + 1)
      [] cmd = "continue" -> IF breaks THEN _set_stopinfo(d, None, 0 - 1)
                             ELSE _stop_tracing(_set_stopinfo(d, None, 0 - 1))
      [] cmd = "quit" -> set_quit(d)

\* The values a breakpoint's condition can take when it is evaluated.
CondValues == {"true", "false", "raise"}

\* process_hit_event gone wrong: a hit is counted only when it demands a stop.
process_hit_event_stops_counted(bp, value) ==
    IF ~bp.enabled THEN [bp |-> bp, stop |-> FALSE, delete |-> FALSE]
    ELSE IF bp.cond # "" /\ value = "false"
    THEN [bp |-> bp, stop |-> FALSE, delete |-> FALSE]
    ELSE IF bp.cond # "" /\ value = "raise"
    THEN [bp |-> [bp EXCEPT !.hits = @ + 1], stop |-> TRUE, delete |-> FALSE]
    ELSE IF bp.ignore > 0
    THEN [bp |-> [bp EXCEPT !.ignore = @ - 1], stop |-> FALSE, delete |-> FALSE]
    ELSE [bp |-> [bp EXCEPT !.hits = @ + 1], stop |-> TRUE, delete |-> TRUE]

\* process_hit_event gone wrong: a condition that raises counts as true.
process_hit_event_raise_is_true(bp, value) ==
    IF ~bp.enabled THEN [bp |-> bp, stop |-> FALSE, delete |-> FALSE]
    ELSE IF bp.cond # "" /\ value = "false"
    THEN [bp |-> [bp EXCEPT !.hits = @ + 1], stop |-> FALSE, delete |-> FALSE]
    ELSE IF bp.ignore > 0
    THEN [bp |-> [bp EXCEPT !.hits = @ + 1, !.ignore = @ - 1],
          stop |-> FALSE, delete |-> FALSE]
    ELSE [bp |-> [bp EXCEPT !.hits = @ + 1], stop |-> TRUE, delete |-> TRUE]

\* process_hit_event gone wrong: a false condition uses up the ignore count.
process_hit_event_false_ignored(bp, value) ==
    IF ~bp.enabled THEN [bp |-> bp, stop |-> FALSE, delete |-> FALSE]
    ELSE IF bp.cond # "" /\ value = "raise"
    THEN [bp |-> [bp EXCEPT !.hits = @ + 1], stop |-> TRUE, delete |-> FALSE]
    ELSE IF bp.ignore > 0
    THEN [bp |-> [bp EXCEPT !.hits = @ + 1, !.ignore = @ - 1],
          stop |-> FALSE, delete |-> FALSE]
    ELSE IF bp.cond # "" /\ value = "false"
    THEN [bp |-> [bp EXCEPT !.hits = @ + 1], stop |-> FALSE, delete |-> FALSE]
    ELSE [bp |-> [bp EXCEPT !.hits = @ + 1], stop |-> TRUE, delete |-> TRUE]

\* process_hit_event gone wrong: an ignored hit leaves the ignore count.
process_hit_event_ignore_kept(bp, value) ==
    IF ~bp.enabled THEN [bp |-> bp, stop |-> FALSE, delete |-> FALSE]
    ELSE IF bp.cond # "" /\ value = "false"
    THEN [bp |-> [bp EXCEPT !.hits = @ + 1], stop |-> FALSE, delete |-> FALSE]
    ELSE IF bp.cond # "" /\ value = "raise"
    THEN [bp |-> [bp EXCEPT !.hits = @ + 1], stop |-> TRUE, delete |-> FALSE]
    ELSE IF bp.ignore > 0
    THEN [bp |-> [bp EXCEPT !.hits = @ + 1], stop |-> FALSE, delete |-> FALSE]
    ELSE [bp |-> [bp EXCEPT !.hits = @ + 1], stop |-> TRUE, delete |-> TRUE]

\* process_hit_event gone wrong: a disabled breakpoint is not set aside; it
\* counts its hits and uses up its ignore count without ever stopping.
process_hit_event_disabled_counted(bp, value) ==
    IF bp.cond # "" /\ value = "false"
    THEN [bp |-> [bp EXCEPT !.hits = @ + 1], stop |-> FALSE, delete |-> FALSE]
    ELSE IF bp.cond # "" /\ value = "raise"
    THEN [bp |-> [bp EXCEPT !.hits = @ + 1], stop |-> bp.enabled, delete |-> FALSE]
    ELSE IF bp.ignore > 0
    THEN [bp |-> [bp EXCEPT !.hits = @ + 1, !.ignore = @ - 1],
          stop |-> FALSE, delete |-> FALSE]
    ELSE [bp |-> [bp EXCEPT !.hits = @ + 1], stop |-> bp.enabled, delete |-> bp.enabled]

\* Breakpoint.process_hit_event(frame), value being what eval(self.cond)
\* gives: [bp, stop, delete].
process_hit_event(bp, value) ==
    IF ~bp.enabled THEN [bp |-> bp, stop |-> FALSE, delete |-> FALSE]
    ELSE IF bp.cond # "" /\ value = "false"
    THEN [bp |-> [bp EXCEPT !.hits = @ + 1], stop |-> FALSE, delete |-> FALSE]
    ELSE IF bp.cond # "" /\ value = "raise"
    THEN [bp |-> [bp EXCEPT !.hits = @ + 1], stop |-> TRUE, delete |-> FALSE]
    ELSE IF bp.ignore > 0
    THEN [bp |-> [bp EXCEPT !.hits = @ + 1, !.ignore = @ - 1],
          stop |-> FALSE, delete |-> FALSE]
    ELSE [bp |-> [bp EXCEPT !.hits = @ + 1], stop |-> TRUE, delete |-> TRUE]

\* One turn of the loop of break_here, process_hit_event having given r.
hit_one(acc, b, r) ==
    [bps |-> [acc.bps EXCEPT ![b] = r.bp],
     effective_bp_list |-> IF r.stop THEN acc.effective_bp_list \cup {r.bp.number}
                           ELSE acc.effective_bp_list,
     temporaries |-> IF r.stop /\ r.bp.temporary /\ r.delete
                     THEN acc.temporaries \cup {r.bp.number}
                     ELSE acc.temporaries]

RECURSIVE hit_loop_first_stop(_, _, _, _)
\* The loop of break_here gone wrong: it ends at the first breakpoint that
\* demands a stop.
hit_loop_first_stop(acc, bplist, values, i) ==
    IF i > Len(bplist) \/ acc.effective_bp_list # {} THEN acc
    ELSE hit_loop_first_stop(hit_one(acc, bplist[i],
                                     process_hit_event(acc.bps[bplist[i]], values[i])),
                             bplist, values, i + 1)

RECURSIVE hit_loop(_, _, _, _)
\* 'for bp in module_bps.breakpts[firstlineno][frame.f_lineno]' from the
\* i-th breakpoint of the list on.
hit_loop(acc, bplist, values, i) ==
    IF i > Len(bplist) THEN acc
    ELSE hit_loop(hit_one(acc, bplist[i],
                          process_hit_event(acc.bps[bplist[i]], values[i])),
                  bplist, values, i + 1)

\* The breakpoints break_here finds at the frame's address: the list at
\* (co_firstlineno, f_lineno) of the frame's file, << >> when there is none.
bplist_at(bpoints, bpts, fr) ==
    IF fr.code[1] \notin bpoints THEN << >>
    ELSE IF fr.code[2] \notin DOMAIN bpts THEN << >>
    ELSE IF fr.f_lineno \notin DOMAIN bpts[fr.code[2]] THEN << >>
    ELSE bpts[fr.code[2]][fr.f_lineno]

\* What break_here returns once its loop ended with acc: None (<< >>) when
\* no breakpoint demands a stop, else the two sorted lists.
break_here_result(acc) ==
    [bps |-> acc.bps,
     hits |-> IF acc.effective_bp_list = {} THEN << >>
              ELSE <<SortSet(acc.effective_bp_list), SortSet(acc.temporaries)>>]

\* Bdb.break_here(frame): [bps, hits].
break_here(bplist, bps_, values) ==
    break_here_result(hit_loop([bps |-> bps_, effective_bp_list |-> {},
                                temporaries |-> {}], bplist, values, 1))

\* The values of the conditions evaluated by one break_here: one per
\* breakpoint of the list that is enabled and has a condition.
ValuesFor(bplist, bps_) ==
    {v \in [1..Len(bplist) -> CondValues \cup {""}] :
        \A i \in 1..Len(bplist) :
            (v[i] = "") <=> ~(bps_[bplist[i]].enabled /\ bps_[bplist[i]].cond # "")}

(***************************************************************************)
(* A session: the interpreter's trace events, the dispatcher, the user     *)
(* callbacks of the test harness (BdbTest) and its commands.               *)
(***************************************************************************)
\* Most hits a breakpoint counts and highest ignore count in a run of the model.
MaxHits == 2
MaxIgnore == 1

\* The frame of a call of unit u, at its call event.
Frame(u) ==
    [unit |-> u, code |-> <<Units[u].co_filename, Units[u].co_firstlineno>>,
     name |-> Units[u].name, f_lineno |-> Units[u].co_firstlineno, f_trace |-> FALSE]

\* What is known of the last trace event: its kind, its frame, whether
\* stop_here held, what break_here returned (<< >> for None), the values the
\* conditions took, the user callback that fired ("" for none) and whether
\* user_line deleted the temporaries.
Event(event, frame, stop, hits, evals, user, cleared) ==
    [event |-> event, frame |-> frame, stop |-> stop, hits |-> hits,
     evals |-> evals, user |-> user, cleared |-> cleared]

\* The start of Bdb._user_method(frame, event).
enter_user(d, frame) ==
    [d EXCEPT !.botframe = IF @ = None THEN frame ELSE @, !.topframe = frame]

\* The interpreter after the trace function returned trace_dispatch for
\* the frame: it is the frame's local trace function.
traced(d, frame) == [d EXCEPT !.stack[frame].f_trace = TRUE]

\* The top frame has returned: what referred to it refers to a frame that
\* is gone, and runcall's 'finally' ends tracing with the last frame.
popped(d) ==
    [d EXCEPT !.stack = SubSeq(@, 1, Len(@) - 1),
              !.stopframe_lno = <<IF @[1] = Len(d.stack) THEN Gone ELSE @[1], @[2]>>,
              !.botframe = IF @ = Len(d.stack) THEN Gone ELSE @,
              !.tracing = @ /\ Len(d.stack) > 1]

\* BdbQuit unwinds every frame up to runcall.
unwound(d) ==
    [d EXCEPT !.stack = << >>,
              !.stopframe_lno = <<IF @[1] = None THEN None ELSE Gone, @[2]>>,
              !.botframe = IF @ = None THEN None ELSE Gone,
              !.tracing = FALSE]

\* The tagging of the caller gone wrong: only after a plain step.
return_to_caller_step_only(d, frame) ==
    IF frame # d.botframe /\ d.stopframe_lno = <<None, 0>>
    THEN _set_stopinfo(IF frame > 1 THEN traced(d, frame - 1) ELSE d, None, 0)
    ELSE d

\* The tagging of the caller gone wrong: the stepping state is left as the
\* callback set it.
return_to_caller_keeps_state(d, frame) ==
    IF frame # d.botframe /\ (d.stopframe_lno = <<None, 0>> \/ frame = d.stopframe_lno[1])
    THEN (IF frame > 1 THEN traced(d, frame - 1) ELSE d)
    ELSE d

\* The tagging of the caller gone wrong: a state that targets the frame
\* with a line number, as set_until leaves it, is not reset.
return_to_caller_not_until(d, frame) ==
    IF /\ frame # d.botframe
       /\ \/ d.stopframe_lno = <<None, 0>>
          \/ frame = d.stopframe_lno[1] /\ d.stopframe_lno[2] <= 0
    THEN _set_stopinfo(IF frame > 1 THEN traced(d, frame - 1) ELSE d, None, 0)
    ELSE d

\* dispatch_return after the user method: the caller gets a local trace
\* function and the stepping state becomes 'step'.
return_to_caller(d, frame) ==
    IF frame # d.botframe /\ (d.stopframe_lno = <<None, 0>> \/ frame = d.stopframe_lno[1])
    THEN _set_stopinfo(IF frame > 1 THEN traced(d, frame - 1) ELSE d, None, 0)
    ELSE d

\* The end of dispatch_return gone wrong: tracing goes on below botframe.
return_of_botframe_kept(d, frame) == d

\* The end of dispatch_return: tracing stops when botframe returns.
return_of_botframe(d, frame) == IF frame = d.botframe THEN _stop_tracing(d) ELSE d

\* What follows the user method in trace_dispatch, and the interpreter's
\* part: _get_trace_function raises BdbQuit when quitting (botframe.f_back
\* is at least the frame of runcall) and returns None when tracing stopped.
after_user(d, frame, event) ==
    IF d.quitting THEN unwound(d)
    ELSE IF event = "return"
    THEN popped(IF d.tracing
                THEN return_of_botframe(return_to_caller(d, frame), frame)
                ELSE d)
    ELSE IF d.tracing THEN traced(d, frame) ELSE d

\* The deletion of the temporaries gone wrong: they leave the number map
\* and stay in the registry of their file.
clear_each_number_only(g, numbers) ==
    [g EXCEPT !.bpbynumber = [k \in DOMAIN @ |->
                                 IF k - 1 \in Range(numbers) THEN None ELSE @[k]]]

\* clear_bpbynumber(n) for each n of the list of temporaries.
RECURSIVE clear_each(_, _)
clear_each(g, numbers) ==
    IF numbers = << >> THEN g
    ELSE clear_each(deleteMe(g, get_bpbynumber(g.bpbynumber, IntArg(Head(numbers))).bp),
                    Tail(numbers))

\* The debugger waits for a session; it skips the modules of skip.
DispatchInit ==
    /\ gdb = NoGdb
    /\ RegInit
    /\ ResolveIdle
    /\ stack = << >>
    /\ tracing = FALSE
    /\ stopframe_lno = <<None, 0>>
    /\ botframe = None
    /\ topframe = None
    /\ quitting = FALSE
    /\ ignore_first_call_event = TRUE
    /\ skip \in SkipSets
    /\ pc = "idle"
    /\ last = NoEvent

\* Bdb.runcall(dbg_module) up to the call: _reset and sys.settrace.
runcall ==
    /\ pc = "idle"
    /\ SetDbg(_set_stopinfo([Dbg EXCEPT !.ignore_first_call_event = FALSE,
                                        !.botframe = None, !.quitting = FALSE,
                                        !.topframe = None, !.tracing = TRUE],
                            None, 0))
    /\ pc' = "run"
    /\ UNCHANGED <<regvars, skip, last>>

\* The unit the debuggee can call now: dbg_module first, then what the
\* line the top frame is at calls.
Callee ==
    IF stack = << >> THEN "dbg_module"
    ELSE IF stack[Len(stack)].f_lineno = Units[stack[Len(stack)].unit].callsite
    THEN Units[stack[Len(stack)].unit].calls
    ELSE ""

\* A call event for the new frame fr, d being the debugger with that frame:
\* dispatch_call up to the user method.
call_event(fr) ==
    /\ pc = "run"
    /\ \E d \in {[Dbg EXCEPT !.stack = Append(@, fr)]} :
       \E frame \in {Len(d.stack)} :
          /\ UNCHANGED <<regvars, skip>>
          /\ IF ~tracing
             THEN SetDbg(d) /\ pc' = "run" /\ last' = NoEvent
             ELSE IF ignore_first_call_event
             THEN /\ SetDbg(traced([d EXCEPT !.ignore_first_call_event = FALSE], frame))
                  /\ pc' = "run"
                  /\ last' = Event("call", frame, FALSE, << >>, << >>, "", FALSE)
             ELSE IF stop_here(d, skip, frame)
             THEN /\ SetDbg(enter_user(d, frame))
                  /\ pc' = "user"
                  /\ last' = Event("call", frame, TRUE, << >>, << >>, "call", FALSE)
             ELSE /\ SetDbg(IF break_at_function(breakpoints, breakpts, d.stack[frame])
                            THEN traced(d, frame) ELSE d)
                  /\ pc' = "run"
                  /\ last' = Event("call", frame, FALSE, << >>, << >>, "", FALSE)

\* A call of the unit the debuggee can call now, its code named by the
\* canonical path of its file.
Call ==
    /\ pc = "run"
    /\ Callee # ""
    /\ call_event(Frame(Callee))

\* A line event at line l of the top frame: dispatch_line up to the user
\* method; BdbTest.user_line deletes the temporaries when the test lists
\* the breakpoints it expects, Bdb.user_line does not.
Line(l) ==
    /\ pc = "run"
    /\ stack # << >>
    /\ l \in Units[stack[Len(stack)].unit].lines
    /\ \A b \in 1..Len(bps) : bps[b].hits < MaxHits
    /\ UNCHANGED <<disk, cache, bdb_module, breakpoints, result, skip>>
    /\ \E d \in {[Dbg EXCEPT !.stack[Len(stack)].f_lineno = l]} :
       \E frame \in {Len(stack)} :
          IF ~(tracing /\ stack[frame].f_trace)
          THEN /\ SetDbg(d) /\ pc' = "run" /\ last' = NoEvent
               /\ UNCHANGED <<breakpts, bps, bpbynumber, next>>
          ELSE IF stop_here(d, skip, frame)
          THEN /\ SetDbg(enter_user(d, frame))
               /\ pc' = "user"
               /\ last' = Event("line", frame, TRUE, << >>, << >>, "line", FALSE)
               /\ UNCHANGED <<breakpts, bps, bpbynumber, next>>
          ELSE \E bplist \in {bplist_at(breakpoints, breakpts, d.stack[frame])} :
               \E values \in ValuesFor(bplist, bps) :
               \E bh \in {break_here(bplist, bps, values)} :
                  IF bh.hits = << >>
                  THEN /\ SetDbg(d) /\ pc' = "run"
                       /\ last' = Event("line", frame, FALSE, << >>, values, "", FALSE)
                       /\ bps' = bh.bps
                       /\ UNCHANGED <<breakpts, bpbynumber, next>>
                  ELSE \E cleared \in IF bh.hits[2] = << >> THEN {FALSE} ELSE BOOLEAN :
                          /\ SetDbg(enter_user(d, frame))
                          /\ pc' = "user"
                          /\ last' = Event("line", frame, FALSE, bh.hits, values, "line", cleared)
                          /\ SetReg(IF cleared
                                    THEN clear_each([Reg EXCEPT !.bps = bh.bps], bh.hits[2])
                                    ELSE [Reg EXCEPT !.bps = bh.bps])

\* A return event of the top frame: dispatch_return, to the user method or
\* to its end when none is called, and the frame is gone.
Return ==
    /\ pc = "run"
    /\ stack # << >>
    /\ UNCHANGED <<regvars, skip>>
    /\ \E frame \in {Len(stack)} :
          IF ~(tracing /\ stack[frame].f_trace)
          THEN /\ SetDbg(popped(Dbg)) /\ last' = NoEvent
               /\ pc' = IF frame = 1 THEN "done" ELSE "run"
          ELSE IF stop_here(Dbg, skip, frame) \/ frame = stopframe_lno[1]
          THEN /\ SetDbg(enter_user(Dbg, frame))
               /\ pc' = "user"
               /\ last' = Event("return", frame, stop_here(Dbg, skip, frame),
                                << >>, << >>, "return", FALSE)
          ELSE /\ SetDbg(popped(return_of_botframe(Dbg, frame)))
               /\ pc' = IF frame = 1 THEN "done" ELSE "run"
               /\ last' = Event("return", frame, FALSE, << >>, << >>, "", FALSE)

\* An exception event in the top frame: dispatch_exception up to the user method.
Exception ==
    /\ pc = "run"
    /\ stack # << >>
    /\ tracing /\ stack[Len(stack)].f_trace
    /\ UNCHANGED <<regvars, skip>>
    /\ IF stop_here(Dbg, skip, Len(stack))
       THEN /\ SetDbg(enter_user(Dbg, Len(stack)))
            /\ pc' = "user"
            /\ last' = Event("exception", Len(stack), TRUE, << >>, << >>, "exception", FALSE)
       ELSE /\ UNCHANGED <<stack, tracing, stopframe_lno, botframe, topframe,
                           quitting, ignore_first_call_event>>
            /\ pc' = "run"
            /\ last' = Event("exception", Len(stack), FALSE, << >>, << >>, "", FALSE)

\* BdbTest.send of a command that resumes the debuggee, in a user callback:
\* the set_* method, the end of _user_method, the rest of the dispatch.
Resume(cmd) ==
    /\ pc = "user"
    /\ \E d \in {set_command(Dbg, cmd, topframe, has_breaks(breakpoints, breakpts))} :
       \E r \in {after_user([d EXCEPT !.topframe = None], topframe, last.event)} :
          /\ SetDbg(r)
          /\ pc' = IF r.stack = << >> THEN "done" ELSE "run"
    /\ last' = NoEvent
    /\ UNCHANGED <<regvars, skip>>

\* BdbTest.set_ignore(bpnum): bp.ignore += 1.
set_ignore(n) ==
    /\ Slot(bpbynumber, n) # None
    /\ bps' = [bps EXCEPT ![Slot(bpbynumber, n)].ignore = @ + 1]
    /\ UNCHANGED <<disk, cache, bdb_module, breakpoints, breakpts, bpbynumber, next, result>>

\* The breakpoints set in a session, each one once: at foo, a plain one and
\* a temporary one with a condition (test_temporary_breakpoint,
\* test_breakpoint_exception_on_condition_evaluation).
SessionBreaks == {<<2, FALSE, "">>, <<2, TRUE, "c">>}
NotSet(k) == \A b \in 1..Len(bps) : <<bps[b].line, bps[b].temporary, bps[b].cond>> # k

\* A command that does not resume leaves the session where it is.
Waiting ==
    /\ pc \in {"idle", "user"}
    /\ UNCHANGED <<rvars, gdb, tracing, stopframe_lno, botframe, topframe, quitting,
                   ignore_first_call_event, skip, pc, last>>

DispatchNext ==
    \/ runcall /\ UNCHANGED <<rvars, gdb>>
    \/ Call /\ UNCHANGED <<rvars, gdb>>
    \/ \E l \in 1..MaxLine : Line(l) /\ UNCHANGED <<rvars, gdb>>
    \/ Return /\ UNCHANGED <<rvars, gdb>>
    \/ Exception /\ UNCHANGED <<rvars, gdb>>
    \/ \E cmd \in Commands : Resume(cmd) /\ UNCHANGED <<rvars, gdb>>
    \/ \E k \in SessionBreaks :
          NotSet(k) /\ set_break("m.py", k[1], k[2], k[3]) /\ Waiting
    \/ \E n \in 1..(Len(bpbynumber) - 1) :
          bps[n].enabled /\ disable(n) /\ Waiting /\ UNCHANGED stack
    \/ \E n \in 1..(Len(bpbynumber) - 1) :
          ~bps[n].enabled /\ enable(n) /\ Waiting /\ UNCHANGED stack
    \/ \E n \in 1..(Len(bpbynumber) - 1) :
          bps[n].ignore < MaxIgnore /\ set_ignore(n) /\ Waiting /\ UNCHANGED stack

SpecDispatch == DispatchInit /\ [][DispatchNext]_vars

(***************************************************************************)
(* The resolver's contract (C2, C3).                                       *)
(***************************************************************************)
RECURSIVE NestedUnits(_)
\* The def/class units nested in code, at any depth.
NestedUnits(code) ==
    LET subs == {c \in code.co_consts : ~StartsWithLt(c.co_name)}
    IN subs \cup UNION {NestedUnits(c) : c \in subs}

\* The lines of a unit's line table: its first line and the running sums of
\* its line increments.
RECURSIVE TableSum(_, _)
TableSum(tab, i) == IF i = 0 THEN 0 ELSE tab[i][2] + TableSum(tab, i - 1)
TableLines(code) ==
    {code.co_firstlineno + TableSum(code.co_lnotab, i) : i \in 0..Len(code.co_lnotab)}

\* C2: get_actual_bp(L) fails with the source error or returns an address
\* <<first_line, actual_line>> with actual_line >= L, actual_line being a
\* line of the line table of a unit (the module or a nested one) whose first
\* line is first_line.
C2_ResolveAtOrAfter ==
    rres.done /\ rres.addr # << >> =>
        /\ rres.addr[2] >= rline
        /\ \E u \in {rcode} \cup NestedUnits(rcode) :
              /\ u.co_firstlineno = rres.addr[1]
              /\ rres.addr[2] \in TableLines(u)

\* C2's case: a line that is no statement (a gap) resolved to a later line
\* of a unit nested two levels down.
C2_Witness ==
    /\ rres.done /\ rres.addr # << >>
    /\ rres.addr[2] > rline
    /\ \E u \in NestedUnits(rcode) : \E v \in NestedUnits(u) :
          v.co_firstlineno = rres.addr[1] /\ rres.addr[2] \in TableLines(v)

\* The stop points as C3 words them: the lines of the module and of its
\* nested units, the header line of every nested unit left out.
StopPointsStrict(code) ==
    (TableLines(code) \cup UNION {TableLines(u) : u \in NestedUnits(code)})
        \ {u.co_firstlineno : u \in NestedUnits(code)}

\* The same, a nested unit whose line table holds its header line alone (a
\* one-line def) keeping that line.
StopPoints(code) ==
    (TableLines(code) \cup UNION {TableLines(u) : u \in NestedUnits(code)})
        \ {u.co_firstlineno : u \in {v \in NestedUnits(code) : Cardinality(TableLines(v)) > 1}}

NearestIn(stops) ==
    LET cand == {l \in stops : l >= rline}
    IN /\ (rres.addr = << >>) <=> (cand = {})
       /\ cand # {} => rres.addr[2] = Min(cand)

\* C3 as stated: the result is the least stop point >= L, header lines of
\* inner units not counted, and the source error is raised exactly when
\* there is none.
C3_NearestStrict == rres.done => NearestIn(StopPointsStrict(rcode))

\* C3 amended: the header line of a nested unit is left out only when the
\* unit has another line; the only line of a one-line unit is a stop point.
C3_Nearest == rres.done => NearestIn(StopPoints(rcode))

\* C3's cases: the nearest line is in a nested unit while the enclosing
\* unit has a later line; and the error when nothing follows L.
C3_Witness ==
    /\ rres.done /\ rres.addr # << >>
    /\ rres.addr[2] > rline
    /\ rres.addr[1] # rcode.co_firstlineno
    /\ \E l \in TableLines(rcode) : l > rres.addr[2]
    /\ \E u \in NestedUnits(rcode) : Cardinality(TableLines(u)) = 1

C3_WitnessError ==
    rres.done /\ rres.addr = << >> /\ rline <= MaxLine

(***************************************************************************)
(* The two indexes of the breakpoints (C1).                                *)
(***************************************************************************)
\* Breakpoint b is in the slot of its number.
InNumberMap(b) == Slot(bpbynumber, bps[b].number) = b
\* Breakpoint b is in the list of its address in the registry of its file.
InRegistry(b) ==
    /\ bps[b].file \in breakpoints
    /\ bps[b].actual_bp[1] \in DOMAIN breakpts
    /\ bps[b].actual_bp[2] \in DOMAIN breakpts[bps[b].actual_bp[1]]
    /\ b \in Range(breakpts[bps[b].actual_bp[1]][bps[b].actual_bp[2]])

\* C1: after any sequence of set_break, clear_break, clear_bpbynumber,
\* clear_all_breaks and restart, a breakpoint is in the slot of its number
\* if and only if it is in the list of its address in the registry of its
\* file, and the registry holds no breakpoint elsewhere.
C1_IndexesAgree ==
    /\ \A b \in 1..Len(bps) : InNumberMap(b) <=> InRegistry(b)
    /\ Stored(breakpts) = {b \in 1..Len(bps) : InRegistry(b)}

\* A restart has moved a live breakpoint to another address than the one
\* its line has in the first content, and another breakpoint is deleted.
C1_Witness ==
    /\ result.op = "restart"
    /\ \E b \in 1..Len(bps) :
          InNumberMap(b) /\ InRegistry(b)
          /\ bps[b].actual_bp # get_actual_bp(SrcFoo, bps[b].line)
    /\ \E b \in 1..Len(bps) : ~InNumberMap(b) /\ ~InRegistry(b)

(***************************************************************************)
(* restart() (C7).                                                         *)
(***************************************************************************)
\* The address of line in the content now on disk, <<>> if it has none.
ResolvesTo(line) ==
    IF disk \in Compilable THEN get_actual_bp(compile(disk), line) ELSE << >>

\* Breakpoint b, live before the step, is live after it with the number,
\* hits, enabled flag and ignore count it had, at the address addr.
KeptAt(b, addr) ==
    /\ bpbynumber'[bps[b].number + 1] = b
    /\ bps'[b].number = bps[b].number
    /\ bps'[b].hits = bps[b].hits
    /\ bps'[b].enabled = bps[b].enabled
    /\ bps'[b].ignore = bps[b].ignore
    /\ bps'[b].line = bps[b].line
    /\ bps'[b].actual_bp = addr
    /\ addr[1] \in DOMAIN breakpts'
    /\ addr[2] \in DOMAIN breakpts'[addr[1]]
    /\ b \in Range(breakpts'[addr[1]][addr[2]])

\* Breakpoint b is in neither index after the step.
Dropped(b) ==
    /\ bpbynumber'[bps[b].number + 1] = None
    /\ b \notin Stored(breakpts')

\* The step is a call of restart(), on a debugger that has breakpoints in
\* the file, that finds the file changed.
RestartStep ==
    /\ restart
    /\ breakpoints # {}
    /\ checkcache(cache, disk) # bdb_module.linecache

\* C7 as stated: after restart() following source edits, a breakpoint whose
\* line resolves in the new source is kept, with its number, hits, enabled
\* flag and ignore count, at the address of its line in the new source, and
\* a breakpoint whose line does not resolve (a line past the last statement,
\* a source without lines, a source that does not compile) is deleted from
\* both indexes.
C7_RestartDropsUnresolved ==
    [][ RestartStep =>
          \A b \in 1..Len(bps) : InNumberMap(b) =>
             IF ResolvesTo(bps[b].line) # << >>
             THEN KeptAt(b, ResolvesTo(bps[b].line))
             ELSE Dropped(b) ]_vars

\* C7: after restart() following source edits, when the new source has no
\* lines or compiles, a breakpoint whose line resolves in it is kept, with
\* its number, hits, enabled flag and ignore count, at the address of its
\* line in the new source, and a breakpoint whose line does not resolve is
\* deleted from both indexes; when the new source does not compile, restart
\* raises BdbSyntaxError and every breakpoint stays as it was, live at the
\* address it had.
C7_Restart ==
    [][ RestartStep =>
          IF disk = "bad"
          THEN /\ result'.ret = BdbSyntaxError
               /\ UNCHANGED <<breakpts, bps, bpbynumber, next>>
          ELSE /\ result'.ret = ""
               /\ \A b \in 1..Len(bps) : InNumberMap(b) =>
                     IF ResolvesTo(bps[b].line) # << >>
                     THEN KeptAt(b, ResolvesTo(bps[b].line))
                     ELSE Dropped(b) ]_vars

\* A restart on the edited content has kept a used breakpoint (hits 2,
\* ignore 1) at a new address and has deleted another whose line is past
\* the last statement of the first content's function.
C7_Witness ==
    /\ result.op = "restart" /\ result.ret = "" /\ disk = "edited"
    /\ \E b \in 1..Len(bps) :
          /\ InNumberMap(b) /\ bps[b].hits = 2 /\ bps[b].ignore = 1
          /\ bps[b].actual_bp = get_actual_bp(SrcEdited, bps[b].line)
          /\ bps[b].actual_bp # get_actual_bp(SrcFoo, bps[b].line)

\* A restart has raised BdbSyntaxError and left a live breakpoint in place.
C7_WitnessSyntaxError ==
    /\ result.op = "restart" /\ result.ret = BdbSyntaxError /\ disk = "bad"
    /\ \E b \in 1..Len(bps) : InNumberMap(b) /\ InRegistry(b)

(***************************************************************************)
(* clear_bpbynumber (C8).                                                  *)
(***************************************************************************)
\* n is the number of a live breakpoint.
LiveNumber(arg) ==
    /\ arg.t = "int"
    /\ arg.v \in 1..(Len(bpbynumber) - 1)
    /\ Slot(bpbynumber, arg.v) # None

\* C8: clear_bpbynumber(n) deletes the live breakpoint numbered n; for every
\* other n (missing, non-numeric, outside the range of assigned numbers,
\* negative, already deleted) it returns an error and leaves the registry
\* and the number map unchanged, a deleted n being reported as 'already
\* deleted'.
C8_ClearByNumber ==
    [][ \A arg \in NumberArgs : clear_bpbynumber(arg) =>
          IF LiveNumber(arg)
          THEN /\ result'.ret = ""
               /\ bpbynumber' = [bpbynumber EXCEPT ![arg.v + 1] = None]
               /\ Slot(bpbynumber, arg.v) \notin Stored(breakpts')
          ELSE /\ result'.ret # ""
               /\ UNCHANGED <<breakpts, bps, bpbynumber, next>>
               /\ (arg.t = "int" /\ arg.v \in 1..(Len(bpbynumber) - 1))
                     => result'.ret = "Breakpoint already deleted" ]_vars

(***************************************************************************)
(* Line events and breakpoints (C4, C5, C9, C10).                          *)
(***************************************************************************)
\* This step is a line event given to dispatch_line / one at which
\* break_here is called.
LineEvent == pc = "run" /\ last'.event = "line"
Consulted == LineEvent /\ ~last'.stop

\* The event's frame is at the address of breakpoint b, which is in the
\* number map.
Reaches(b) ==
    /\ Slot(bpbynumber, bps[b].number) # None
    /\ bps[b].file = stack'[last'.frame].code[1]
    /\ bps[b].actual_bp = <<stack'[last'.frame].code[2], stack'[last'.frame].f_lineno>>

\* C4 as stated: the hits counter of an enabled breakpoint is incremented by
\* exactly one on every line event that reaches its address, whatever the
\* stepping state, the result of the condition and the ignore count.
C4_HitsEveryLineEvent ==
    [][LineEvent =>
          \A b \in 1..Len(bps) :
             (Reaches(b) /\ bps[b].enabled) => bps'[b].hits = bps[b].hits + 1]_vars

\* C4, amended: the hits counter of an enabled breakpoint is incremented by
\* exactly one on every line event that reaches its address and at which
\* stop_here(frame) is false, whatever the result of the condition and the
\* ignore count; on a line event at which stop_here(frame) is true the
\* breakpoints are not consulted and no counter changes.
C4_Hits ==
    [][LineEvent =>
          \A b \in 1..Len(bps) :
             bps'[b].hits = IF Reaches(b) /\ bps[b].enabled /\ ~last'.stop
                            THEN bps[b].hits + 1 ELSE bps[b].hits]_vars

\* A line event has counted a hit of a breakpoint whose condition was false
\* and one of a breakpoint that had an ignore count.
C4_Witness ==
    /\ last.event = "line" /\ ~last.stop
    /\ "false" \in Range(last.evals)
    /\ \E b \in 1..Len(bps) : bps[b].hits = MaxHits

\* A line event at which the stepping state stops, at the address of an
\* enabled breakpoint.
C4_WitnessStop ==
    /\ last.event = "line" /\ last.stop /\ pc = "user"
    /\ \E b \in 1..Len(bps) :
          /\ bps[b].enabled
          /\ Slot(bpbynumber, bps[b].number) # None
          /\ bps[b].actual_bp = <<stack[topframe].code[2], stack[topframe].f_lineno>>

\* The breakpoints break_here goes through at this line event.
HitList == bplist_at(breakpoints, breakpts, stack'[last'.frame])

\* The i-th breakpoint of the list passes all gating: enabled, condition
\* true, ignore count zero.
Passes(i) ==
    /\ bps[HitList[i]].enabled
    /\ last'.evals[i] \in {"", "true"}
    /\ bps[HitList[i]].ignore = 0

\* The i-th breakpoint of the list demands a stop.
Demands(i) == Passes(i) \/ last'.evals[i] = "raise"

C5_WitnessKept ==
    /\ last.event = "line" /\ last.hits # << >> /\ ~last.cleared
    /\ \E n \in Range(last.hits[2]) : Slot(bpbynumber, n) # None

\* Strictly ascending.
Ascending(l) == \A i, j \in 1..Len(l) : i < j => l[i] < l[j]

\* C9: break_here(frame) runs the hit procedure of every breakpoint stored at
\* the frame's address, also after one of them has demanded a stop, and
\* returns None when none demands a stop, otherwise the numbers of the
\* breakpoints that demand a stop and the numbers of the temporaries to
\* delete, each list ascending and the second within the first.
C9_BreakHere ==
    [][Consulted =>
          /\ \A i \in 1..Len(HitList) :
                bps[HitList[i]].enabled =>
                    bps'[HitList[i]].hits = bps[HitList[i]].hits + 1
          /\ (last'.hits = << >>) <=> (\A i \in 1..Len(HitList) : ~Demands(i))
          /\ last'.hits # << >> =>
                /\ Range(last'.hits[1]) =
                      {bps[HitList[i]].number : i \in {k \in 1..Len(HitList) : Demands(k)}}
                /\ Ascending(last'.hits[1])
                /\ Ascending(last'.hits[2])
                /\ Range(last'.hits[2]) \subseteq Range(last'.hits[1])
                /\ last'.user = "line"]_vars

\* break_here returned two breakpoints that demand a stop, the second of
\* them a temporary to delete.
C9_Witness ==
    /\ last.event = "line"
    /\ last.hits # << >>
    /\ Len(last.hits[1]) = 2
    /\ Len(last.hits[2]) = 1

\* break_here went through two breakpoints and returned None.
C9_WitnessNone ==
    /\ last.event = "line" /\ ~last.stop /\ last.hits = << >>
    /\ Len(last.evals) = 2
    /\ \A b \in 1..Len(bps) : bps[b].hits > 0

\* C10: when the evaluation of a breakpoint's condition raises, the
\* exception stays in the dispatcher: the hit is reported to user_line as a
\* stop, the breakpoint is not among the temporaries to delete and stays in
\* the number map, and its ignore count is not decremented.
C10_ConditionRaises ==
    [][Consulted =>
          \A i \in 1..Len(HitList) :
             last'.evals[i] = "raise" =>
                /\ pc' = "user" /\ last'.user = "line" /\ topframe' = last'.frame
                /\ bps[HitList[i]].number \in Range(last'.hits[1])
                /\ bps[HitList[i]].number \notin Range(last'.hits[2])
                /\ Slot(bpbynumber', bps[HitList[i]].number) = HitList[i]
                /\ HitList[i] \in Stored(breakpts')
                /\ bps'[HitList[i]].ignore = bps[HitList[i]].ignore
                /\ bps'[HitList[i]].hits = bps[HitList[i]].hits + 1]_vars

\* The condition of a temporary breakpoint with an ignore count has raised.
C10_Witness ==
    /\ last.event = "line" /\ pc = "user"
    /\ \E b \in 1..Len(bps) :
          /\ bps[b].temporary
          /\ bps[b].ignore > 0
          /\ bps[b].hits > 0
          /\ last.hits # << >>
          /\ bps[b].number \in Range(last.hits[1])
          /\ "raise" \in Range(last.evals)

(***************************************************************************)
(* Skipped modules (C6).                                                   *)
(***************************************************************************)
\* A user callback runs for a frame of a skipped module.
InSkipped == pc = "user" /\ skip # {} /\ is_skipped_module(skip, stack[topframe].name)

\* C6 as stated: no user_line, user_call, user_return or user_exception
\* callback fires for an event of a frame whose module name matches a
\* pattern of the skip set.
C6_NeverStoppedIn == ~InSkipped

\* C6, amended: stop_here is false for a frame whose module name matches a
\* pattern of the skip set, so that no user_call and no user_exception
\* callback fires for an event of such a frame; user_line fires for it only
\* when break_here reports a breakpoint hit, and user_return only when the
\* frame is the stop frame.
C6_Skipped ==
    InSkipped =>
        /\ ~last.stop
        /\ \/ last.user = "line" /\ last.hits # << >>
           \/ last.user = "return" /\ stopframe_lno[1] = topframe

\* user_line fires in a skipped module at a breakpoint.
C6_Witness == InSkipped /\ last.user = "line"

\* user_return fires in a skipped module for the stop frame.
C6_WitnessReturn == InSkipped /\ last.user = "return"

(***************************************************************************)
(* Conditions, ignore counts, disabled breakpoints (C11, C12, C13).        *)
(***************************************************************************)
\* A breakpoint as Breakpoint.__init__ leaves it, with a condition.
NewBp(temporary, cond) ==
    [file |-> FILE, line |-> 2, actual_bp |-> <<2, 3>>, temporary |-> temporary,
     cond |-> cond, enabled |-> TRUE, ignore |-> 0, hits |-> 0, number |-> 1]

RECURSIVE HitsOf(_, _)
\* The outcomes of process_hit_event at successive hits of bp, the
\* condition taking the values of the list: <<stops, bp at the end>>.
HitsOf(bp, values) ==
    IF values = << >> THEN <<0, bp>>
    ELSE LET r == process_hit_event(bp, Head(values))
             rest == HitsOf(r.bp, Tail(values))
         IN <<(IF r.stop THEN 1 ELSE 0) + rest[1], rest[2]>>

\* C11: a hit of an enabled breakpoint whose condition is false does not
\* stop, leaves the ignore count as it is and does not list a temporary for
\* deletion, and counts in hits; a breakpoint with condition a == 2 reached
\* with a = 0, 1, 2 stops once and ends with hits = 3.
C11_ConditionFalse ==
    [][Consulted =>
          /\ \A i \in 1..Len(HitList) :
                last'.evals[i] = "false" =>
                   /\ last'.hits # << >> =>
                         /\ bps[HitList[i]].number \notin Range(last'.hits[1])
                         /\ bps[HitList[i]].number \notin Range(last'.hits[2])
                   /\ bps'[HitList[i]].ignore = bps[HitList[i]].ignore
                   /\ bps'[HitList[i]].hits = bps[HitList[i]].hits + 1
                   /\ Slot(bpbynumber', bps[HitList[i]].number) = HitList[i]
          /\ (\A i \in 1..Len(HitList) : last'.evals[i] = "false") =>
                (last'.user = "" /\ pc' = "run")
          /\ HitsOf(NewBp(FALSE, "a == 2"), <<"false", "false", "true">>)[1] = 1
          /\ HitsOf(NewBp(FALSE, "a == 2"), <<"false", "false", "true">>)[2].hits = 3]_vars

\* The condition of a temporary breakpoint that has an ignore count was
\* false at a line event, and the debuggee ran on.
C11_Witness ==
    /\ last.event = "line" /\ last.user = "" /\ pc = "run"
    /\ \E i \in 1..Len(last.evals) :
          /\ last.evals[i] = "false"
          /\ \E b \in 1..Len(bps) :
                /\ bps[b].cond # "" /\ bps[b].temporary
                /\ bps[b].ignore > 0 /\ bps[b].hits > 0
                /\ Slot(bpbynumber, bps[b].number) = b

\* A list of n values "true".
Trues(n) == [i \in 1..n |-> "true"]

\* C12: a breakpoint with ignore count N > 0 does not stop at its next N
\* hits that occur while it is enabled and pass its condition, and its
\* ignore count goes down by one at each of them; it stops at the following
\* such hit; the ignore count is never negative.
C12_IgnoreCount ==
    [][/\ Consulted =>
            \A i \in 1..Len(HitList) :
               IF bps[HitList[i]].enabled /\ last'.evals[i] \in {"", "true"}
               THEN IF bps[HitList[i]].ignore > 0
                    THEN /\ bps'[HitList[i]].ignore = bps[HitList[i]].ignore - 1
                         /\ last'.hits # << >> =>
                               bps[HitList[i]].number \notin Range(last'.hits[1])
                    ELSE /\ bps'[HitList[i]].ignore = 0
                         /\ last'.hits # << >>
                         /\ bps[HitList[i]].number \in Range(last'.hits[1])
               ELSE bps'[HitList[i]].ignore = bps[HitList[i]].ignore
       /\ \A b \in 1..Len(bps') : bps'[b].ignore >= 0
       /\ \A n \in 1..(MaxIgnore + 1) :
             /\ HitsOf([NewBp(FALSE, "") EXCEPT !.ignore = n], Trues(n))[1] = 0
             /\ HitsOf([NewBp(FALSE, "") EXCEPT !.ignore = n], Trues(n))[2].ignore = 0
             /\ HitsOf([NewBp(FALSE, "") EXCEPT !.ignore = n], Trues(n + 1))[1] = 1]_vars

\* A line event at the address of an enabled breakpoint without condition
\* did not stop and left it with no ignore count: the hit was ignored.
C12_Witness ==
    /\ last.event = "line" /\ ~last.stop /\ last.hits = << >> /\ pc = "run"
    /\ \E b \in 1..Len(bps) :
          /\ Slot(bpbynumber, bps[b].number) = b
          /\ bps[b].enabled /\ bps[b].cond = ""
          /\ bps[b].ignore = 0 /\ bps[b].hits > 0
          /\ bps[b].actual_bp = <<stack[last.frame].code[2], stack[last.frame].f_lineno>>

\* C13: while a breakpoint is disabled, a line event at its address yields
\* (stop = false, delete = false) for it and leaves its hits and its ignore
\* count unchanged; enabling it again leaves them too, so that an ignore
\* count set before disabling is in force, undiminished, afterwards.
C13_Disabled ==
    [][/\ Consulted =>
            \A i \in 1..Len(HitList) :
               ~bps[HitList[i]].enabled =>
                  /\ bps'[HitList[i]] = bps[HitList[i]]
                  /\ Slot(bpbynumber', bps[HitList[i]].number) = HitList[i]
                  /\ last'.hits # << >> =>
                        /\ bps[HitList[i]].number \notin Range(last'.hits[1])
                        /\ bps[HitList[i]].number \notin Range(last'.hits[2])
       /\ \A b \in 1..Len(bps) :
             bps'[b].enabled # bps[b].enabled =>
                bps'[b] = [bps[b] EXCEPT !.enabled = ~@]
       /\ \A n \in 1..(MaxIgnore + 1) :
             LET off == [NewBp(FALSE, "") EXCEPT !.ignore = n, !.enabled = FALSE]
                 on == [HitsOf(off, Trues(2))[2] EXCEPT !.enabled = TRUE]
             IN /\ HitsOf(off, Trues(2)) = <<0, off>>
                /\ HitsOf(on, Trues(n))[1] = 0
                /\ HitsOf(on, Trues(n + 1))[1] = 1]_vars

\* A line event has reported a breakpoint at the address of another one
\* that is disabled, has an ignore count and has no hit.
C13_Witness ==
    /\ last.event = "line" /\ last.hits # << >>
    /\ \E b \in 1..Len(bps) :
          /\ Slot(bpbynumber, bps[b].number) = b
          /\ ~bps[b].enabled /\ bps[b].ignore > 0 /\ bps[b].hits = 0
          /\ bps[b].actual_bp = <<stack[last.frame].code[2], stack[last.frame].f_lineno>>

(***************************************************************************)
(* Header lines and lines between functions (C14).                         *)
(***************************************************************************)
\* The units nested in u that u's own line l is the header of.
UnitAt(u, l) == {v \in u.co_consts : ~StartsWithLt(v.co_name) /\ v.co_firstlineno = l}

RECURSIVE FirstStatement(_)
\* The address of the first executable statement of the body of unit u: its
\* second line, or the first statement of the unit nested at that line;
\* its only line when the whole unit is on its header line.
FirstStatement(u) ==
    LET lines == SortSet(TableLines(u))
    IN IF Len(lines) = 1 THEN <<u.co_firstlineno, lines[1]>>
       ELSE IF UnitAt(u, lines[2]) # {}
       THEN FirstStatement(CHOOSE v \in UnitAt(u, lines[2]) : TRUE)
       ELSE <<u.co_firstlineno, lines[2]>>

\* Every line of the module rcode, at any depth.
AllLines == TableLines(rcode) \cup UNION {TableLines(u) : u \in NestedUnits(rcode)}

\* The lines of u and of the units nested in it.
LinesWithin(u) == TableLines(u) \cup UNION {TableLines(v) : v \in NestedUnits(u)}

\* rline is no line of the module, lies after all of some function and the
\* next line of the module is the header of the function b.
Between(b) ==
    /\ rline \notin AllLines
    /\ \E a \in NestedUnits(rcode) : \A l \in LinesWithin(a) : l < rline
    /\ b.co_firstlineno > rline
    /\ \A l \in AllLines : l > rline => l >= b.co_firstlineno

\* C14: a breakpoint requested on the header line of a def or class unit
\* resolves to the first executable statement of the unit's body, or of the
\* unit nested at that statement: an address within the unit, never a line
\* of the enclosing unit; a breakpoint requested on a line that is no
\* statement, between two functions, resolves to the first statement of the
\* next function.
C14_HeaderAndBetween ==
    rres.done =>
       \A u \in NestedUnits(rcode) :
          /\ rline = u.co_firstlineno =>
                /\ rres.addr = FirstStatement(u)
                /\ rres.addr[1] \in {v.co_firstlineno : v \in {u} \cup NestedUnits(u)}
                /\ rres.addr[2] \in LinesWithin(u)
          /\ Between(u) => rres.addr = FirstStatement(u)

\* A header line resolved into the unit nested at the first statement of
\* its unit.
C14_Witness ==
    /\ rres.done
    /\ \E u \in NestedUnits(rcode) :
          /\ rline = u.co_firstlineno
          /\ rres.addr[1] \in {v.co_firstlineno : v \in NestedUnits(u)}
          /\ rres.addr[2] > rres.addr[1]

\* A line between two functions resolved to the first statement of the next.
C14_WitnessBetween ==
    /\ rres.done
    /\ \E u \in NestedUnits(rcode) :
          Between(u) /\ rres.addr = FirstStatement(u) /\ rres.addr[2] > u.co_firstlineno

(***************************************************************************)
(* The stepping state (C15, C16, C17).                                     *)
(***************************************************************************)
\* The debuggee runs with the stepping state (F, lineno), F a frame of the
\* stack, and this step is a trace event.
Stepping(F, lineno) ==
    /\ pc = "run"
    /\ stopframe_lno = <<F, lineno>>
    /\ F \in 1..Len(stack)
    /\ last'.event # ""

\* The event's frame is in a skipped module.
SkippedFrame(F) == skip # {} /\ is_skipped_module(skip, stack[F].name)

\* C15 as stated: after set_next(F), while the stepping state is (F, 0), no
\* user callback fires for an event in a frame called from F unless a
\* breakpoint is hit there; the next stop is the next line event in F or
\* the return event of F.
C15_NextStops ==
    [][\A F \in 1..Len(stack) :
          Stepping(F, 0) =>
             /\ (last'.frame > F /\ last'.user # "") =>
                    (last'.user = "line" /\ last'.hits # << >>)
             /\ (last'.frame = F /\ last'.user # "") => last'.event \in {"line", "return"}
             /\ (last'.frame = F /\ last'.event \in {"line", "return"}) =>
                    last'.user = last'.event]_vars

\* C15, amended: after set_next(F), while the stepping state is (F, 0), no
\* user callback fires for an event in a frame called from F unless
\* break_here reports a breakpoint hit there; F has a local trace function;
\* the return event of F fires user_return; when F's module is not skipped,
\* the next line or exception event in F fires its callback; when it is
\* skipped, a line event in F fires user_line only at a breakpoint hit and
\* an exception event in F fires nothing.
C15_Next ==
    [][\A F \in 1..Len(stack) :
          /\ (stopframe_lno = <<F, 0>> /\ tracing) => stack[F].f_trace
          /\ Stepping(F, 0) =>
                /\ last'.frame >= F
                /\ (last'.frame > F /\ last'.user # "") =>
                       (last'.user = "line" /\ ~last'.stop /\ last'.hits # << >>)
                /\ (last'.frame = F /\ last'.event = "return") => last'.user = "return"
                /\ (last'.frame = F /\ last'.event \in {"line", "exception"}) =>
                       IF ~SkippedFrame(F)
                       THEN last'.user = last'.event /\ last'.stop
                       ELSE /\ ~last'.stop
                            /\ last'.user # "" =>
                                  (last'.user = "line" /\ last'.hits # << >>)]_vars

\* Under the stepping state (F, 0) an event of a frame called from F was
\* given to the dispatcher and no callback fired.
C15_Witness ==
    /\ pc = "run"
    /\ stopframe_lno[2] = 0
    /\ stopframe_lno[1] \in 1..Len(stack)
    /\ last.event \in {"call", "line", "return"}
    /\ last.frame > stopframe_lno[1]
    /\ last.user = ""

\* Under the stepping state (F, 0) the next line event in F has stopped.
C15_WitnessStop ==
    /\ pc = "user"
    /\ stopframe_lno = <<topframe, 0>>
    /\ last.event = "line" /\ last.stop /\ last.frame = topframe
    /\ topframe > 1

\* Under the stepping state (F, 0) an exception event in F has stopped.
C15_WitnessException ==
    /\ pc = "user"
    /\ stopframe_lno = <<topframe, 0>>
    /\ last.event = "exception" /\ last.frame = topframe

\* C16 as stated: after set_until(F, L) a line event in F with line < L
\* does not stop, the first line event in F with line >= L stops, and if F
\* returns before reaching such a line the return event of F stops.
C16_UntilStops ==
    [][\A F \in 1..Len(stack) : \A L \in 1..(MaxLine + 1) :
          (Stepping(F, L) /\ last'.frame = F) =>
             /\ last'.event = "line" =>
                   (last'.user = "line" <=> stack'[F].f_lineno >= L)
             /\ last'.event = "return" => last'.user = "return"]_vars

\* C16, amended: after set_until(F, L), with L defaulting to F's current
\* line + 1, stop_here is false at a line event in F with line < L, which
\* fires user_line only when break_here reports a breakpoint hit; when F's
\* module is not skipped the first line event in F with line >= L stops, and
\* when it is skipped such a line event stops only at a breakpoint hit; the
\* return event of F fires user_return wherever F is.
C16_Until ==
    [][\A F \in 1..Len(stack) : \A L \in 1..(MaxLine + 1) :
          (Stepping(F, L) /\ last'.frame = F) =>
             /\ last'.event = "line" =>
                   /\ last'.stop <=> (stack'[F].f_lineno >= L /\ ~SkippedFrame(F))
                   /\ last'.stop => last'.user = "line"
                   /\ ~last'.stop => (last'.user = "line" <=> last'.hits # << >>)
             /\ last'.event = "return" => last'.user = "return"]_vars

\* Under the stepping state (F, L) a line event in F before line L was
\* given to the dispatcher and did not stop.
C16_Witness ==
    /\ pc = "run"
    /\ stopframe_lno[2] > 0
    /\ stopframe_lno[1] \in 1..Len(stack)
    /\ last.event = "line" /\ last.frame = stopframe_lno[1] /\ last.user = ""
    /\ stack[last.frame].f_lineno < stopframe_lno[2]

\* Under the stepping state (F, L) a line event in F at a line >= L stopped.
C16_WitnessStop ==
    /\ pc = "user"
    /\ stopframe_lno[2] > 0
    /\ stopframe_lno[1] = topframe
    /\ last.event = "line" /\ last.stop
    /\ stack[topframe].f_lineno >= stopframe_lno[2]

\* Under the stepping state (F, L) F returned before it reached line L.
C16_WitnessReturn ==
    /\ pc = "user"
    /\ stopframe_lno[2] > 0
    /\ stopframe_lno[1] = topframe
    /\ last.event = "return" /\ ~last.stop
    /\ stack[topframe].f_lineno < stopframe_lno[2]
    /\ ~SkippedFrame(topframe)

\* The debuggee runs with lineno = -1 in the stepping state, and this step
\* is a trace event.
NeverStop == pc = "run" /\ stopframe_lno[2] = 0 - 1 /\ last'.event # ""

\* C17: while the stepping state has lineno = -1, no line, call or exception
\* event fires a user callback unless break_here reports a breakpoint hit;
\* with (None, -1) no return event fires user_return either, and with (F, -1)
\* the only event that stops without a breakpoint is the return event of F.
C17_NeverStop ==
    [][NeverStop =>
          /\ ~last'.stop
          /\ last'.event = "line" => (last'.user = "line" <=> last'.hits # << >>)
          /\ last'.event \in {"call", "exception"} => last'.user = ""
          /\ last'.event = "return" =>
                (last'.user = "return" <=>
                    (stopframe_lno[1] # None /\ last'.frame = stopframe_lno[1]))
          /\ last'.user = "" => pc' # "user"]_vars

\* With (None, -1) a return event was given to the dispatcher and fired no
\* callback.
C17_Witness ==
    /\ stopframe_lno = <<None, 0 - 1>>
    /\ last.event = "return" /\ last.user = ""
    /\ tracing

\* With (F, -1) the return event of F fired user_return.
C17_WitnessReturn ==
    /\ pc = "user"
    /\ stopframe_lno = <<topframe, 0 - 1>>
    /\ last.event = "return" /\ last.user = "return"

\* With lineno = -1 a line event fired user_line at a breakpoint hit.
C17_WitnessBreakpoint ==
    /\ pc = "user"
    /\ stopframe_lno[2] = 0 - 1
    /\ last.event = "line" /\ last.user = "line" /\ last.hits # << >>

\* With (F, -1) a line event in F and a call event from F fired no callback.
C17_WitnessLine ==
    /\ pc = "run"
    /\ stopframe_lno[2] = 0 - 1
    /\ stopframe_lno[1] \in 1..Len(stack)
    /\ last.event \in {"line", "call"} /\ last.user = ""

(***************************************************************************)
(* The return to the caller and the end of the run (C18, C19).             *)
(***************************************************************************)
\* The debugger after the command given in the user callback.
AfterCommand(cmd) ==
    set_command(Dbg, cmd, topframe, has_breaks(breakpoints, breakpts))

\* user_return has fired for F, which is not the bottom frame, this step is
\* the command given there and what follows it, and the stepping state after
\* the command is (None, 0) or targets F.
ToCaller(F, cmd) ==
    /\ pc = "user" /\ last.event = "return"
    /\ topframe = F /\ F # botframe
    /\ Resume(cmd)
    /\ \/ AfterCommand(cmd).stopframe_lno = <<None, 0>>
       \/ AfterCommand(cmd).stopframe_lno[1] = F

\* The caller of F is traced, the stepping state is (None, 0), F is gone.
CallerTagged(F) ==
    /\ F > 1 /\ Len(stack') = F - 1
    /\ tracing' /\ stack'[F - 1].f_trace
    /\ stopframe_lno' = <<None, 0>>

\* C18 as stated: when user_return has fired for a frame F that is not the
\* bottom frame and the stepping state afterwards is (None, 0) or targets F,
\* the caller of F gets the trace function and the state becomes (None, 0),
\* and the next line event in the caller stops.
C18_ReturnTagsCaller ==
    [][\A F \in 1..Len(stack) : \A cmd \in Commands :
          ToCaller(F, cmd) =>
             /\ CallerTagged(F)
             /\ stop_here(Dbg', skip, F - 1)]_vars

\* C18, amended: when user_return has fired for a frame F that is not the
\* bottom frame, the command given there has left tracing installed and has
\* not asked to quit, and the stepping state afterwards is (None, 0) or
\* targets F, the caller of F gets the trace function even if it had none and
\* the state becomes (None, 0), also when the command was next, until or
\* return; under (None, 0) a line event in a traced frame fires user_line
\* exactly when the frame's module is not skipped, so the next user_line is
\* the next line event in the caller when the caller's module is not skipped.
C18_Return ==
    [][/\ \A F \in 1..Len(stack) : \A cmd \in Commands :
             ToCaller(F, cmd) =>
                IF AfterCommand(cmd).tracing /\ ~AfterCommand(cmd).quitting
                THEN /\ CallerTagged(F)
                     /\ stop_here(Dbg', skip, F - 1) <=> ~SkippedFrame(F - 1)
                ELSE stack' = << >> \/ ~tracing'
       /\ (pc = "run" /\ stopframe_lno = <<None, 0>> /\ last'.event = "line") =>
             /\ last'.stop <=> ~SkippedFrame(last'.frame)
             /\ last'.stop => (last'.user = "line" /\ pc' = "user")]_vars

\* user_return has fired for a frame whose caller has no trace function and
\* which is not the bottom frame.
C18_Witness ==
    /\ pc = "user" /\ last.event = "return"
    /\ topframe > 1 /\ topframe # botframe
    /\ ~stack[topframe - 1].f_trace
    /\ stopframe_lno = <<None, 0>>

\* The same at a return event that stopped because the state targets F.
C18_WitnessTargets ==
    /\ pc = "user" /\ last.event = "return"
    /\ topframe > 1 /\ topframe # botframe
    /\ ~stack[topframe - 1].f_trace
    /\ stopframe_lno[1] = topframe

\* user_line in a frame above which no frame is traced, reached by the
\* tagging of the caller: the module's frame gets no trace function at its
\* call event when user_call fired for dbg_module only.
C18_WitnessLine ==
    /\ pc = "user" /\ last.event = "line" /\ last.stop
    /\ topframe = 2 /\ Len(stack) = 2
    /\ stopframe_lno = <<None, 0>>
    /\ breakpoints # {} /\ stack[2].code[2] \notin DOMAIN breakpts

\* This step ends the bottom frame: its return event without a callback,
\* or what follows the command given at its return event.
BotframeReturns == botframe \in 1..Len(stack) /\ Len(stack') < botframe

\* C19: when the bottom frame returns, the dispatcher tears down host
\* tracing, whatever the stepping state; after that return event no event
\* reaches the dispatcher and no user callback fires for the rest of the run.
C19_BottomFrameReturns ==
    [][/\ BotframeReturns =>
             /\ ~tracing' /\ pc' # "user"
             /\ botframe' = Gone
       /\ botframe = Gone =>
             /\ ~tracing' /\ pc' # "user"
             /\ last'.event = "" /\ last'.user = ""
             /\ botframe' = Gone]_vars

\* The bottom frame has returned to a caller that goes on running, after a
\* return event that fired no callback.
C19_Witness ==
    /\ botframe = Gone /\ stack # << >> /\ pc = "run"
    /\ last.event = "return" /\ last.user = ""
    /\ stopframe_lno = <<None, 0 - 1>>

\* The same after user_return and a step command.
C19_WitnessStep ==
    /\ botframe = Gone /\ stack # << >> /\ pc = "run"
    /\ stopframe_lno[2] = 0

\* The caller of the bottom frame runs a line after the bottom frame returned.
C19_WitnessAfter ==
    /\ botframe = Gone /\ stack # << >> /\ pc = "run"
    /\ stack[Len(stack)].f_lineno \in {1, 2}
    /\ stack[Len(stack)].unit = "module"

(***************************************************************************)
(* set_continue (C20).                                                     *)
(***************************************************************************)
\* The numbers of the live breakpoints.
LiveBreakpoints == {n \in 1..(Len(bpbynumber) - 1) : Slot(bpbynumber, n) # None}

\* This step is the continue command given in a user callback, and what
\* follows it in the dispatch.
Continues == pc = "user" /\ Resume("continue")

\* C20: set_continue() sets the stepping state to (None, -1) and tears down
\* host-level tracing exactly when no live breakpoint exists at the time of
\* the call: with none, no further debug event reaches a user callback; with
\* at least one live breakpoint, enabled or disabled, tracing stays
\* installed (until the bottom frame returns).
C20_Continue ==
    [][/\ Continues =>
             /\ AfterCommand("continue").stopframe_lno = <<None, 0 - 1>>
             /\ AfterCommand("continue").tracing <=> LiveBreakpoints # {}
             /\ stopframe_lno' = <<None, 0 - 1>>
             /\ tracing' <=> /\ LiveBreakpoints # {}
                             /\ ~(last.event = "return" /\ topframe = botframe)
             /\ LiveBreakpoints = {} =>
                   \A k \in 1..Len(stack') : k >= botframe => ~stack'[k].f_trace
       /\ (pc = "run" /\ ~tracing) =>
             /\ ~tracing' /\ pc' # "user"
             /\ last'.event = "" /\ last'.user = ""]_vars

\* The debuggee runs after a continue command given with no live
\* breakpoint: the temporary breakpoint that stopped it was deleted.
C20_Witness ==
    /\ pc = "run" /\ stack # << >> /\ botframe # Gone
    /\ ~tracing /\ ~quitting
    /\ stopframe_lno = <<None, 0 - 1>>
    /\ LiveBreakpoints = {}
    /\ Len(bpbynumber) > 1

\* The same with no breakpoint ever set (test_python_issue_16482).
C20_WitnessNone ==
    /\ pc = "run" /\ stack # << >> /\ botframe # Gone
    /\ ~tracing /\ ~quitting
    /\ stopframe_lno = <<None, 0 - 1>>
    /\ Len(bpbynumber) = 1

\* The debuggee runs traced after a continue command given while the only
\* live breakpoint is disabled.
C20_WitnessDisabled ==
    /\ pc = "run" /\ tracing
    /\ stopframe_lno = <<None, 0 - 1>>
    /\ LiveBreakpoints # {}
    /\ \A n \in LiveBreakpoints : ~bps[Slot(bpbynumber, n)].enabled

(***************************************************************************)
(* Breakpoint numbers (C25).                                               *)
(***************************************************************************)
\* The numbers assigned so far.
Assigned == {bps[i].number : i \in 1..Len(bps)}

\* One slot per number assigned, after slot 0; the i-th breakpoint created
\* has number i, and a live slot holds the breakpoint of its number.
NumbersDense ==
    /\ Len(bpbynumber) = next
    /\ Assigned = 1..(next - 1)
    /\ \A i \in 1..Len(bps) : bps[i].number = i
    /\ \A n \in 1..(next - 1) :
          Slot(bpbynumber, n) # None => bps[Slot(bpbynumber, n)].number = n

\* C25: breakpoint numbers are assigned 1, 2, 3, ... in creation order and
\* are never reused: after any sequence of creations and deletions each new
\* breakpoint gets a number strictly greater than every number assigned
\* before, and the number map holds exactly one slot (a live breakpoint or
\* None) per number assigned.
C25_NumbersNeverReused ==
    [][/\ NumbersDense'
       /\ \A i \in 1..Len(bps) : Len(bps') >= i /\ bps'[i].number = bps[i].number
       /\ Len(bps') > Len(bps) =>
             /\ Len(bps') = Len(bps) + 1
             /\ \A n \in Assigned : bps'[Len(bps')].number > n
             /\ bps'[Len(bps')].number = next /\ next' = next + 1
             /\ Len(bpbynumber') = Len(bpbynumber) + 1
             /\ Slot(bpbynumber', next) = Len(bps')
       /\ Len(bps') = Len(bps) =>
             /\ next' = next
             /\ Len(bpbynumber') = Len(bpbynumber)]_vars

\* A breakpoint was created after the deletion of an earlier one: slot 1 is
\* None, slot 2 is live.
C25_Witness ==
    /\ next = 3
    /\ Slot(bpbynumber, 1) = None
    /\ Slot(bpbynumber, 2) # None
    /\ result.op = "set_break" /\ result.bp = 2

(***************************************************************************)
(* get_breaks and clear_break (C26).                                       *)
(***************************************************************************)
\* The live breakpoints whose user line is l.
LiveAt(l) ==
    {b \in 1..Len(bps) : Slot(bpbynumber, bps[b].number) = b /\ bps[b].line = l}

\* The live breakpoints.
Live == {b \in 1..Len(bps) : Slot(bpbynumber, bps[b].number) = b}

\* C26: get_breaks(file, line) returns exactly the live breakpoints whose
\* user_line equals line; clear_break(file, line) deletes exactly those
\* breakpoints and leaves the others live, and returns an error without
\* changing anything when there is none.
C26_GetAndClear ==
    [][\A l \in BreakLines :
          /\ Range(get_breaks(FILE, l)) = LiveAt(l)
          /\ clear_break(FILE, l) =>
                IF LiveAt(l) = {}
                THEN result'.ret # "" /\ UNCHANGED <<breakpts, bps, bpbynumber, next>>
                ELSE /\ result'.ret = ""
                     /\ Live' = Live \ LiveAt(l)]_vars

\* The same while the module of the file has a code object.
C26_WithCode ==
    [][\A l \in BreakLines :
          bdb_module.code # NoCode =>
             /\ Range(get_breaks(FILE, l)) = LiveAt(l)
             /\ clear_break(FILE, l) =>
                   IF LiveAt(l) = {}
                   THEN result'.ret # "" /\ UNCHANGED <<breakpts, bps, bpbynumber, next>>
                   ELSE /\ result'.ret = ""
                        /\ Live' = Live \ LiveAt(l)]_vars

(***************************************************************************)
(* set_break that fails (C27).                                             *)
(***************************************************************************)
\* This step is a call of set_break, by line or by function name.
IsSetBreak ==
    \/ \E lineno \in BreakLines : set_break("m.py", lineno, FALSE, "")
    \/ \E funcname \in FuncNames : set_break_funcname("m.py", funcname, FALSE, "")

\* C27: a set_break that fails with a source error (file without readable
\* lines, line after the last valid statement, unknown function name)
\* creates no breakpoint: the registry, the number map and the next sequence
\* number are the same as before the call.
C27_FailedSetBreak ==
    [][(/\ result'.ret = BdbSourceError
        /\ result'.op \in {"set_break", "set_break funcname"}
        /\ IsSetBreak) =>
          /\ UNCHANGED <<breakpoints, breakpts, bps, bpbynumber, next>>
          /\ result'.bp = None]_vars

\* set_break has failed on a file without lines: no module was made.
C27_Witness ==
    /\ result = Outcome("set_break", BdbSourceError, None)
    /\ disk = "empty" /\ ~bdb_module.present
    /\ breakpoints = {}

\* set_break has failed on a line after the last statement of a module
\* that holds a breakpoint.
C27_WitnessLine ==
    /\ result = Outcome("set_break", BdbSourceError, None)
    /\ bdb_module.present /\ bdb_module.code # NoCode
    /\ next = 2 /\ Slot(bpbynumber, 1) # None

\* set_break has failed on a function name the module does not define.
C27_WitnessFunction ==
    /\ result = Outcome("set_break funcname", BdbSourceError, None)
    /\ bdb_module.present /\ bdb_module.code # NoCode
    /\ next = 2 /\ Slot(bpbynumber, 1) # None

(***************************************************************************)
(* stop_here as a function of the stepping state (C30).                    *)
(***************************************************************************)
\* C30: stop_here(frame) is false when the frame's module name matches a
\* skip pattern; otherwise it is true exactly when (stopframe is None or
\* frame is stopframe) and lineno != -1 and frame.line >= lineno, for every
\* stepping state and every frame.
C30_StopHere ==
    \A f \in 1..Len(stack) :
       stop_here(Dbg, skip, f) <=>
          /\ ~(\E pattern \in skip : fnmatch(stack[f].name, pattern))
          /\ stopframe_lno[1] = None \/ stopframe_lno[1] = f
          /\ stopframe_lno[2] # 0 - 1
          /\ stack[f].f_lineno >= stopframe_lno[2]

\* The stepping state targets a frame that has a caller and a callee:
\* stop_here is true for it and false for the others.
C30_Witness ==
    /\ Len(stack) = 3 /\ stopframe_lno = <<2, 0>>
    /\ stop_here(Dbg, skip, 2)
    /\ ~stop_here(Dbg, skip, 1) /\ ~stop_here(Dbg, skip, 3)

\* The frame of the stepping state is at the line of the state, and at a
\* line before it.
C30_WitnessLine ==
    /\ stopframe_lno[1] \in 1..Len(stack)
    /\ stopframe_lno[2] = stack[stopframe_lno[1]].f_lineno
    /\ stop_here(Dbg, skip, stopframe_lno[1])

C30_WitnessBefore ==
    /\ stopframe_lno[1] \in 1..Len(stack)
    /\ stopframe_lno[2] = stack[stopframe_lno[1]].f_lineno + 1
    /\ ~stop_here(Dbg, skip, stopframe_lno[1])
    /\ skip = {}

\* A frame of a skipped module under (None, 0), above a frame that is not.
C30_WitnessSkipped ==
    /\ Len(stack) >= 2 /\ stopframe_lno = <<None, 0>>
    /\ stop_here(Dbg, skip, 1) /\ ~stop_here(Dbg, skip, 2)

(***************************************************************************)
(* Plain step mode (C24).                                                  *)
(***************************************************************************)
\* This step is a line event of the program, traced or not (an untraced
\* line event at the line the frame is at already changes nothing).
LineStep ==
    /\ pc = "run" /\ stack # << >>
    /\ Len(stack') = Len(stack)
    /\ last'.event = "line" \/ (last' = NoEvent /\ stack' # stack)

\* Plain step mode: (None, 0), tracing installed.
StepMode == stopframe_lno = <<None, 0>> /\ tracing

\* The line event of this step is delivered to user_line, with its frame
\* and its line.
Delivered ==
    /\ pc' = "user" /\ last'.user = "line" /\ last'.event = "line"
    /\ topframe' = Len(stack) /\ last'.frame = Len(stack)
    /\ \A k \in 1..(Len(stack) - 1) : stack'[k] = stack[k]

C24_WitnessSkipped ==
    /\ pc = "run" /\ StepMode /\ stack # << >>
    /\ last.event = "line" /\ last.user = ""
    /\ SkippedFrame(Len(stack))

(***************************************************************************)
(* Sessions from entry to exit: Bdb.run, runeval, runcall and set_trace.   *)
(* The stack holds every frame of the thread, the frame of the runner      *)
(* included, so that the frame at depth 1 is the one without f_back;       *)
(* exceptions propagate from frame to frame.                               *)
(***************************************************************************)
\* The methods of Bdb that run a debuggee.
Runners == {"run", "runeval", "runcall"}

\* The frame of the runner at the line that runs the debuggee.
RunnerFrame == [Frame("runner") EXCEPT !.f_lineno = Units["runner"].callsite]

\* No session: the runner returned to its caller ("idle") or the program
\* that called set_trace ended ("done").
Ended == pc \in {"idle", "done"} /\ stack = << >>

\* _reset gone wrong: quitting is left as the last session set it.
_reset_keeps_quitting(d, ignore, bot) ==
    _set_stopinfo([d EXCEPT !.ignore_first_call_event = ignore, !.botframe = bot,
                            !.topframe = None],
                  None, 0)

\* _reset gone wrong: the first call event is ignored whoever resets.
_reset_always_armed(d, ignore, bot) ==
    _set_stopinfo([d EXCEPT !.ignore_first_call_event = TRUE, !.botframe = bot,
                            !.quitting = FALSE, !.topframe = None],
                  None, 0)

\* Bdb._reset(ignore_first_call_event, botframe).
_reset(d, ignore, bot) ==
    _set_stopinfo([d EXCEPT !.ignore_first_call_event = ignore, !.botframe = bot,
                            !.quitting = FALSE, !.topframe = None],
                  None, 0)

\* Bdb.run, Bdb.runeval and Bdb.runcall up to the debuggee: _reset, with
\* ignore_first_call_event left at its default by run and runeval, and
\* sys.settrace.
run(method) ==
    /\ Ended
    /\ SetDbg([_reset([Dbg EXCEPT !.stack = <<RunnerFrame>>], method # "runcall", None)
                  EXCEPT !.tracing = TRUE])
    /\ pc' = "run"
    /\ last' = NoEvent
    /\ result' = Outcome(method, "running", None)
    /\ UNCHANGED <<disk, cache, bdb_module, breakpoints, breakpts, bps, bpbynumber,
                   next, skip>>

\* The frames of a program that calls set_trace() from its frame at the
\* given depth.
Program(depth) ==
    IF depth = 1 THEN <<[Frame("dbg_module") EXCEPT !.f_lineno = 3]>>
    ELSE <<[Frame("dbg_module") EXCEPT !.f_lineno = 2], Frame("module")>>

\* Bdb.set_trace() called by the program: the caller's frame gets the local
\* trace function, _reset keeps botframe, and the walk down f_back makes
\* the outermost frame the bottom frame unless it meets botframe.
set_trace(depth) ==
    /\ Ended
    /\ \E d \in {_reset([Dbg EXCEPT !.stack = traced([stack |-> Program(depth)], depth).stack],
                        FALSE, botframe)} :
          SetDbg(IF d.botframe \in 1..depth THEN [d EXCEPT !.tracing = TRUE]
                 ELSE [traced(d, 1) EXCEPT !.botframe = 1, !.tracing = TRUE])
    /\ pc' = "run"
    /\ last' = NoEvent
    /\ result' = Outcome("set_trace", "running", None)
    /\ UNCHANGED <<disk, cache, bdb_module, breakpoints, breakpts, bps, bpbynumber,
                   next, skip>>

\* The runner is about to run the debuggee.
RunnerCalls == stack = <<RunnerFrame>>

\* The debuggee is gone: the runner's frame is at its 'finally' clause.
back_in_runner(d) ==
    IF Len(d.stack) = 1 /\ d.stack[1].unit = "runner"
    THEN [d EXCEPT !.stack[1].f_lineno = 3]
    ELSE d

\* The top frame is the runner's.
InRunner == Len(stack) = 1 /\ stack[1].unit = "runner"

\* Where the thread goes on once the frame at depth frame has returned,
\* exc telling that an exception left it.
Returned(frame, exc) ==
    IF frame = 1 THEN "done" ELSE IF exc THEN "raise" ELSE "run"

\* A return event of the top frame of the debuggee, the frame returning
\* (exc false) or an exception leaving it: dispatch_return.
return_event(exc) ==
    /\ pc = IF exc THEN "unwind" ELSE "run"
    /\ stack # << >> /\ ~InRunner
    /\ UNCHANGED <<regvars, skip>>
    /\ \E frame \in {Len(stack)} :
          IF ~(tracing /\ stack[frame].f_trace)
          THEN /\ SetDbg(back_in_runner(popped(Dbg))) /\ last' = NoEvent
               /\ pc' = Returned(frame, exc)
          ELSE IF stop_here(Dbg, skip, frame) \/ frame = stopframe_lno[1]
          THEN /\ SetDbg(enter_user(Dbg, frame))
               /\ pc' = IF exc THEN "user_unwind" ELSE "user"
               /\ last' = Event("return", frame, stop_here(Dbg, skip, frame),
                                << >>, << >>, "return", FALSE)
          ELSE /\ SetDbg(back_in_runner(popped(return_of_botframe(Dbg, frame))))
               /\ pc' = Returned(frame, exc)
               /\ last' = Event("return", frame, FALSE, << >>, << >>, "", FALSE)

\* An exception event in the top frame of the debuggee, for an exception
\* raised there or one that a callee let through: dispatch_exception. The
\* frame does not handle it.
exception_event ==
    /\ pc \in {"run", "raise"}
    /\ stack # << >> /\ ~InRunner
    /\ UNCHANGED <<regvars, skip>>
    /\ IF ~(tracing /\ stack[Len(stack)].f_trace)
       THEN /\ UNCHANGED <<stack, tracing, stopframe_lno, botframe, topframe,
                           quitting, ignore_first_call_event>>
            /\ pc' = "unwind"
            /\ last' = NoEvent
       ELSE IF stop_here(Dbg, skip, Len(stack))
       THEN /\ SetDbg(enter_user(Dbg, Len(stack)))
            /\ pc' = "user"
            /\ last' = Event("exception", Len(stack), TRUE, << >>, << >>, "exception", FALSE)
       ELSE /\ UNCHANGED <<stack, tracing, stopframe_lno, botframe, topframe,
                           quitting, ignore_first_call_event>>
            /\ pc' = "unwind"
            /\ last' = Event("exception", Len(stack), FALSE, << >>, << >>, "", FALSE)

\* _get_trace_function gone wrong: BdbQuit is raised whenever quitting is
\* set, whether or not botframe has a caller.
_get_trace_function_always_raises(d, frame, event) ==
    IF d.quitting THEN unwound(d)
    ELSE after_user(d, frame, event)

\* What follows the user method in trace_dispatch: _get_trace_function
\* raises BdbQuit when quitting and botframe.f_back is a frame, which the
\* frame at depth 1 has not; else it returns None or trace_dispatch and the
\* dispatch goes on as after_user tells.
_get_trace_function(d, frame, event) ==
    IF d.quitting /\ d.botframe # 1 THEN unwound(d)
    ELSE [after_user([d EXCEPT !.quitting = FALSE], frame, event)
             EXCEPT !.quitting = d.quitting]

\* What a callback does before it returns: the set_* method of cmd and,
\* again being true, set_quit() after it.
commanded(d, cmd, again, breaks) ==
    IF again
    THEN set_command(set_command(d, cmd, d.topframe, breaks), "quit", d.topframe, breaks)
    ELSE set_command(d, cmd, d.topframe, breaks)

\* The end of a user callback that left the debugger d: the end of
\* _user_method and the rest of the dispatch. A BdbQuit reaches the runner,
\* which swallows it and returns.
resumed(d) ==
    /\ \E r \in {back_in_runner(_get_trace_function([d EXCEPT !.topframe = None],
                                                     topframe, last.event))} :
          /\ SetDbg(r)
          /\ pc' = IF r.stack = << >>
                   THEN (IF stack[1].unit = "runner" THEN "idle" ELSE "done")
                   ELSE IF Len(r.stack) < Len(stack)
                   THEN Returned(Len(stack), pc = "user_unwind")
                   ELSE IF last.event = "exception" THEN "unwind"
                   ELSE IF pc = "user_unwind" THEN "raise"
                   ELSE "run"
          /\ result' = IF r.stack = << >> /\ stack[1].unit = "runner"
                       THEN Outcome(result.op, "", None) ELSE result
    /\ last' = NoEvent
    /\ UNCHANGED <<disk, cache, bdb_module, breakpoints, breakpts, bps, bpbynumber,
                   next, skip>>

\* BdbTest.send of a command that resumes the debuggee, in a user callback:
\* the set_* method called for the frame of the callback. A client may call
\* set_quit() a second time, or after set_continue(), before it returns.
resume(cmd, again) ==
    /\ pc \in {"user", "user_unwind"}
    /\ again => cmd \in {"quit", "continue"}
    /\ resumed(commanded(Dbg, cmd, again, has_breaks(breakpoints, breakpts)))

\* The commands that take a frame: set_next, set_return, set_until.
FrameCommands == {"next", "return", "until"}

\* A command that resumes the debuggee called for another frame F of the
\* thread than the frame of the callback: a caller selected with 'up'
\* (BdbTest.set_up), or any older frame a client holds.
resume_at(cmd, F) ==
    /\ pc \in {"user", "user_unwind"}
    /\ F \in 1..Len(stack) /\ F # topframe
    /\ resumed(set_command(Dbg, cmd, F, has_breaks(breakpoints, breakpts)))

\* The end of the runner gone wrong: no 'finally', sys.settrace(None) is
\* reached only when the debuggee returns.
run_exit_no_finally ==
    /\ pc \in {"run", "raise"}
    /\ InRunner /\ ~RunnerCalls
    /\ SetDbg([popped(Dbg) EXCEPT !.tracing = tracing /\ pc = "raise"])
    /\ pc' = "idle"
    /\ last' = NoEvent
    /\ result' = Outcome(result.op, IF pc = "raise" THEN "raised" ELSE "", None)
    /\ UNCHANGED <<disk, cache, bdb_module, breakpoints, breakpts, bps, bpbynumber,
                   next, skip>>

\* The end of run, runeval and runcall: 'except BdbQuit: pass' lets any
\* other exception through, and 'finally: sys.settrace(None)'.
run_exit ==
    /\ pc \in {"run", "raise"}
    /\ InRunner /\ ~RunnerCalls
    /\ SetDbg([popped(Dbg) EXCEPT !.tracing = FALSE])
    /\ pc' = "idle"
    /\ last' = NoEvent
    /\ result' = Outcome(result.op, IF pc = "raise" THEN "raised" ELSE "", None)
    /\ UNCHANGED <<disk, cache, bdb_module, breakpoints, breakpts, bps, bpbynumber,
                   next, skip>>

\* What is done to the breakpoints between two sessions leaves the
\* debugger as the last session left it.
BetweenSessions ==
    /\ Ended
    /\ UNCHANGED <<rvars, gdb, tracing, stopframe_lno, botframe, topframe, quitting,
                   ignore_first_call_event, skip, pc, last>>

\* The breakpoints set between two sessions, each one once: two in foo, at
\* its first and at its second statement, and one in the module, at the
\* line that calls foo.
BetweenBreaks == {<<2, FALSE, "">>, <<4, FALSE, "">>, <<5, FALSE, "">>}

\* A debugger made with any of the skip sets, no session yet.
SessionInit == DispatchInit

SessionNext ==
    \/ \E method \in Runners : run(method) /\ UNCHANGED <<rvars, gdb>>
    \/ \E depth \in 1..2 : set_trace(depth) /\ UNCHANGED <<rvars, gdb>>
    \/ Call /\ (InRunner => RunnerCalls) /\ UNCHANGED <<rvars, gdb>>
    \/ \E l \in 1..MaxLine : Line(l) /\ (InRunner => ~RunnerCalls) /\ UNCHANGED <<rvars, gdb>>
    \/ \E exc \in BOOLEAN : return_event(exc) /\ UNCHANGED <<rvars, gdb>>
    \/ exception_event /\ UNCHANGED <<rvars, gdb>>
    \/ \E cmd \in Commands : \E again \in BOOLEAN : resume(cmd, again) /\ UNCHANGED <<rvars, gdb>>
    \/ \E cmd \in FrameCommands : \E F \in DOMAIN stack : resume_at(cmd, F) /\ UNCHANGED <<rvars, gdb>>
    \/ run_exit /\ UNCHANGED <<rvars, gdb>>
    \/ NotSet(<<2, FALSE, "">>) /\ set_break("m.py", 2, FALSE, "") /\ BetweenSessions
    \/ \E n \in 1..(Len(bpbynumber) - 1) :
          bps[n].enabled /\ disable(n) /\ BetweenSessions /\ UNCHANGED stack
    \/ \E n \in 1..(Len(bpbynumber) - 1) :
          ~bps[n].enabled /\ enable(n) /\ BetweenSessions /\ UNCHANGED stack
    \/ \E n \in 1..(Len(bpbynumber) - 1) :
          bps[n].ignore < MaxIgnore /\ set_ignore(n) /\ BetweenSessions /\ UNCHANGED stack

SpecSession == SessionInit /\ [][SessionNext]_vars

\* Sessions between which breakpoints are set and deleted: what the call
\* events of a function make of the breakpoints there are.
CallsNext ==
    \/ \E method \in Runners : run(method) /\ UNCHANGED <<rvars, gdb>>
    \/ Call /\ (InRunner => RunnerCalls) /\ UNCHANGED <<rvars, gdb>>
    \/ \E l \in 1..MaxLine : Line(l) /\ (InRunner => ~RunnerCalls) /\ UNCHANGED <<rvars, gdb>>
    \/ return_event(FALSE) /\ UNCHANGED <<rvars, gdb>>
    \/ \E cmd \in {"step", "continue"} : resume(cmd, FALSE) /\ UNCHANGED <<rvars, gdb>>
    \/ run_exit /\ UNCHANGED <<rvars, gdb>>
    \/ \E k \in BetweenBreaks :
          NotSet(k) /\ set_break("m.py", k[1], k[2], k[3]) /\ BetweenSessions
    \/ \E n \in 1..(Len(bpbynumber) - 1) :
          clear_bpbynumber(IntArg(n)) /\ BetweenSessions /\ UNCHANGED stack

SpecCalls == SessionInit /\ [][CallsNext]_vars

\* The names the code of unit u can go by in co_filename when it is called
\* now: the name the caller's code goes by when both are in the same file,
\* else any of the path names of its file.
PathsOf(u) ==
    IF stack # << >> /\ stack[Len(stack)].code[1] \in all_pathnames(Units[u].co_filename)
    THEN {stack[Len(stack)].code[1]}
    ELSE all_pathnames(Units[u].co_filename)

\* A call of the unit the debuggee can call now, its code named by path.
CallNamed(path) ==
    /\ pc = "run"
    /\ Callee # ""
    /\ path \in PathsOf(Callee)
    /\ call_event([Frame(Callee) EXCEPT !.code[1] = path])

\* The breakpoints set in a callback or between two sessions, each one
\* once: in foo and at the first line of the module, which calls foo.
ChainBreaks == {<<2, FALSE, "">>, <<1, FALSE, "">>}

\* The path names a file is given by.
PathNames == {FILE, "m.py", "./m.py", CALLER, "t.py", "./t.py"}

\* Sessions of a debuggee whose files are named by any of their path
\* names, breakpoints being set in callbacks and between sessions.
ChainNext ==
    \/ \E method \in Runners : run(method) /\ UNCHANGED <<rvars, gdb>>
    \/ \E path \in PathNames :
          CallNamed(path) /\ (InRunner => RunnerCalls) /\ UNCHANGED <<rvars, gdb>>
    \/ \E l \in 1..MaxLine : Line(l) /\ (InRunner => ~RunnerCalls) /\ UNCHANGED <<rvars, gdb>>
    \/ return_event(FALSE) /\ UNCHANGED <<rvars, gdb>>
    \/ \E cmd \in {"step", "continue"} : resume(cmd, FALSE) /\ UNCHANGED <<rvars, gdb>>
    \/ run_exit /\ UNCHANGED <<rvars, gdb>>
    \/ \E k \in ChainBreaks :
          NotSet(k) /\ set_break("m.py", k[1], k[2], k[3]) /\ Waiting

SpecChain == SessionInit /\ [][ChainNext]_vars

\* A session started by run, runeval or runcall is active: the runner's
\* frame is the outermost one of the thread.
RunnerSession == stack # << >> /\ stack[1].unit = "runner"

\* set_trace gone wrong: botframe is reset with the rest.
set_trace_frame_resets_botframe(F) ==
    /\ pc = "run"
    /\ RunnerSession
    /\ F \in DOMAIN stack
    /\ \E d \in {_reset(traced([Dbg EXCEPT !.tracing = FALSE], F), FALSE, None)} :
          SetDbg(IF d.botframe \in 1..F THEN [d EXCEPT !.tracing = TRUE]
                 ELSE [traced(d, 1) EXCEPT !.botframe = 1, !.tracing = TRUE])
    /\ pc' = "run"
    /\ last' = NoEvent
    /\ UNCHANGED <<regvars, skip>>

\* Bdb.set_trace(F) called while the debuggee of a runner executes, as a
\* signal handler does: sys.settrace(None), F gets the local trace
\* function, _reset keeps botframe, the walk down f_back from F stops at
\* botframe or else makes the outermost frame the bottom frame and gives it
\* the local trace function, and sys.settrace(self.trace_dispatch).
set_trace_frame(F) ==
    /\ pc = "run"
    /\ RunnerSession
    /\ F \in DOMAIN stack
    /\ \E d \in {_reset(traced([Dbg EXCEPT !.tracing = FALSE], F), FALSE, botframe)} :
          SetDbg(IF d.botframe \in 1..F THEN [d EXCEPT !.tracing = TRUE]
                 ELSE [traced(d, 1) EXCEPT !.botframe = 1, !.tracing = TRUE])
    /\ pc' = "run"
    /\ last' = NoEvent
    /\ UNCHANGED <<regvars, skip>>

\* Sessions of the runners in which set_trace is called with any frame of
\* the thread while the debuggee executes.
SignalNext ==
    \/ \E method \in Runners : run(method) /\ UNCHANGED <<rvars, gdb>>
    \/ Call /\ (InRunner => RunnerCalls) /\ UNCHANGED <<rvars, gdb>>
    \/ \E l \in 1..MaxLine : Line(l) /\ (InRunner => ~RunnerCalls) /\ UNCHANGED <<rvars, gdb>>
    \/ \E exc \in BOOLEAN : return_event(exc) /\ UNCHANGED <<rvars, gdb>>
    \/ exception_event /\ UNCHANGED <<rvars, gdb>>
    \/ \E cmd \in Commands : resume(cmd, FALSE) /\ UNCHANGED <<rvars, gdb>>
    \/ run_exit /\ UNCHANGED <<rvars, gdb>>
    \/ \E F \in DOMAIN stack : set_trace_frame(F) /\ UNCHANGED <<rvars, gdb>>
    \/ NotSet(<<2, FALSE, "">>) /\ set_break("m.py", 2, FALSE, "") /\ BetweenSessions

SpecSignal == SessionInit /\ [][SignalNext]_vars

(***************************************************************************)
(* The gdb/mi connection of pdb-attach (attach.py).                        *)
(***************************************************************************)
\* A line of gdb and a message are sequences of tokens; Q is the double
\* quote, EscN the two characters backslash and n, NL a newline.
Q == "\""
EscN == "\\n"
NL == "\n"

startswith(s, prefix) ==
    Len(s) >= Len(prefix) /\ SubSeq(s, 1, Len(prefix)) = prefix

endswith(s, suffix) ==
    Len(s) >= Len(suffix) /\ SubSeq(s, Len(s) - Len(suffix) + 1, Len(s)) = suffix

\* str.strip(chars), chars being one token.
strip(s, ch) ==
    LET RECURSIVE lstrip(_)
        lstrip(t) == IF t # << >> /\ t[1] = ch THEN lstrip(Tail(t)) ELSE t
        RECURSIVE rstrip(_)
        rstrip(t) ==
            IF t # << >> /\ t[Len(t)] = ch THEN rstrip(SubSeq(t, 1, Len(t) - 1)) ELSE t
    IN  rstrip(lstrip(s))

\* str.replace(old, new), old and new being one token each.
replace(s, old, new) == [i \in 1..Len(s) |-> IF s[i] = old THEN new ELSE s[i]]

\* 'text in s', text being one token.
contains(s, text) == \E i \in 1..Len(s) : s[i] = text

\* takewhile over the last word of the header: the digits and dots it
\* starts with, a bracket before them being dropped.
takewhile_version(tok) ==
    IF tok = "7.5.1" THEN "7.5.1" ELSE IF tok = "(7.6-32.fc19)" THEN "7.6" ELSE ""

\* parse_gdb_version(line): what follows the last space of the header.
parse_gdb_version(line) ==
    IF startswith(line, <<"~", Q>>) /\ endswith(line, <<EscN, Q>>)
    THEN LET body == SubSeq(line, 3, Len(line) - 2)
         IN  IF \E i \in 1..Len(body) : body[i] = " "
             THEN takewhile_version(IF body[Len(body)] = " " THEN "" ELSE body[Len(body)])
             ELSE ""
    ELSE ""

\* The lines gdb sends.
ExitLine == <<"^exit">>
ErrorLines == {<<"^error,msg=", Q, "ptrace: No such process.", Q>>,
               <<"^error,msg=", Q, "No symbol table is loaded.", EscN, Q>>}
ExitedLine == <<"*stopped,", "reason=\"exited", "-normally\"">>
FrameLine == <<"*stopped,", "frame=", "{addr=\"0x1\"}">>

\* With them: the header of gdb and a console line without version, the
\* statement line pdb prints, the results of the py-pdb command, a log
\* line and a result no case of found_terminator matches.
GdbLines ==
    {ExitLine, ExitedLine, FrameLine,
     <<"~", Q, "GNU gdb (GDB)", " ", "7.5.1", EscN, Q>>,
     <<"~", Q, "Reading", " ", "symbols", EscN, Q>>,
     <<"~", Q, "->", " x = 1", EscN, Q>>,
     <<"~", Q, "Pdb has been setup", EscN, Q>>,
     <<"~", Q, "Unable to setup pdb", EscN, Q>>,
     <<"~", Q, "Cannot setup pdb", EscN, "Address already in use", ".", EscN, Q>>,
     <<"~", Q, "Cannot setup pdb", EscN, "No Python thread", ".", EscN, Q>>,
     <<"&", Q, "attach 1", EscN, Q>>,
     <<"^done">>} \cup ErrorLines

\* The number of lines of gdb a session receives.
MaxReceived == 3

\* GdbSocket.mi_command and cli_command: the command is pushed to gdb.
mi_command(g, line) == [g EXCEPT !.pushed = Append(@, line)]
cli_command(g, cmd) == mi_command(g, <<"-interpreter-exec console ", Q, cmd, Q>>)

\* GdbSocket.exit(msg, where).
exit(g, msg, where) ==
    mi_command(IF where
               THEN cli_command([g EXCEPT !.state = "ST_EXIT", !.error = msg,
                                          !.verbose = TRUE], "where")
               ELSE [g EXCEPT !.state = "ST_EXIT", !.error = msg],
               <<"-gdb-exit">>)

\* Result.add(rtype).
add(res, rtype) ==
    [res EXCEPT !.retries =
        [r \in DOMAIN @ \cup {rtype} |->
            IF r \in DOMAIN @ THEN (IF r = rtype THEN @[r] + 1 ELSE @[r]) ELSE 1]]

\* StatementLine.skip(): the statement line of the previous py-pdb command
\* was seen before. The second component is the value returned.
stmt_skip(stmt) ==
    IF stmt.line \in stmt.lines
    THEN <<[stmt EXCEPT !.line = << >>, !.skipping = TRUE], TRUE>>
    ELSE IF stmt.line # << >>
    THEN <<[stmt EXCEPT !.line = << >>, !.lines = @ \cup {stmt.line}], FALSE>>
    ELSE <<stmt, FALSE>>

\* StatementLine.print(): the end of a run of skipped lines.
stmt_print(stmt) ==
    IF stmt.line # << >> /\ stmt.line \notin stmt.lines
    THEN [stmt EXCEPT !.skipping = FALSE]
    ELSE stmt

\* The second line of a message, without the dots around it.
second_line(lines) ==
    LET first == CHOOSE i \in 1..Len(lines) : lines[i] = NL /\ \A j \in 1..(i - 1) : lines[j] # NL
        rest == SubSeq(lines, first + 1, Len(lines))
        stop == IF contains(rest, NL)
                THEN CHOOSE i \in 1..Len(rest) : rest[i] = NL /\ \A j \in 1..(i - 1) : rest[j] # NL
                ELSE Len(rest) + 1
    IN  strip(SubSeq(rest, 1, stop - 1), ".")

\* GdbSocket.process_result(lines): the socket after it and what it returns.
process_result(g, lines) ==
    IF contains(lines, "Unable to setup pdb")
    THEN <<exit(g, Some(lines), TRUE), FALSE>>
    ELSE IF contains(lines, "Cannot setup pdb")
    THEN IF g.ctx
         THEN LET rtype == second_line(lines)
                  g1 == [g EXCEPT !.result = add(@, rtype)]
              IN  IF contains(rtype, "Address already in use")
                  THEN <<g1, TRUE>>
                  ELSE <<exit(g1, Nothing, FALSE), FALSE>>
         ELSE <<exit(g, Some(lines), FALSE), FALSE>>
    ELSE IF contains(lines, "Pdb has been setup")
    THEN <<IF g.ctx THEN [g EXCEPT !.stmt = stmt_print(@)] ELSE g, TRUE>>
    ELSE <<g, FALSE>>

\* GdbSocket.attach(): the connection to the remote pdb is made, or given
\* up after the last attempt.
attach(g, connects) ==
    IF ~g.ctx THEN g
    ELSE IF connects THEN [g EXCEPT !.result.attach_cnt = @ + 1]
    ELSE [g EXCEPT !.result = add(@, <<"Failed to connect to remote pdb">>)]

\* The start of found_terminator: the statement line pdb prints is kept in
\* the context, unless the output of gdb is printed as it comes. The second
\* component is the line the rest of the method looks at.
statement_line(g, line) ==
    IF ~g.verbose /\ startswith(line, <<"~", Q, "->">>)
    THEN LET stripped == strip(Tail(line), Q)
             stmt == IF endswith(stripped, <<EscN>>)
                     THEN SubSeq(stripped, 1, Len(stripped) - 1) ELSE stripped
         IN  <<IF g.ctx THEN [g EXCEPT !.stmt.line = stmt] ELSE g, stmt>>
    ELSE <<g, line>>

\* The '*stopped,' case of found_terminator.
stopped(g, line) ==
    IF startswith(line, <<"*stopped,", "reason=\"exited">>)
    THEN exit(g, Nothing, FALSE)
    ELSE IF startswith(line, <<"*stopped,", "frame=">>)
    THEN IF ~g.ctx
         THEN cli_command([g EXCEPT !.state = "ST_PDB"], "py-pdb")
         ELSE LET sk == stmt_skip(g.stmt)
                  g1 == [g EXCEPT !.stmt = sk[1]]
              IN  IF ~sk[2]
                  THEN cli_command([g1 EXCEPT !.state = "ST_PDB"], "py-pdb")
                  ELSE exit(g1, Nothing, FALSE)
    ELSE g

\* The result of the py-pdb command, the last case of found_terminator.
pdb_result(g, line, connects) ==
    LET pr == process_result(g, replace(strip(Tail(line), Q), EscN, NL))
    IN  IF pr[2] THEN attach(exit(pr[1], Nothing, FALSE), connects) ELSE pr[1]

\* The cases of found_terminator after its start.
line_cases(g, line, connects) ==
    IF line = ExitLine
    THEN [g EXCEPT !.state = "ST_TERMINATED", !.phase = "closed"]
    ELSE IF startswith(line, <<"~", Q>>) /\ g.gdb_version = Nothing
    THEN IF parse_gdb_version(line) # ""
         THEN [g EXCEPT !.gdb_version = Some(parse_gdb_version(line))]
         ELSE exit([g EXCEPT !.gdb_version = Some("")],
                   Some(<<"Invalid gdb version line: ", Q>> \o line \o <<Q, ".">>), FALSE)
    ELSE IF startswith(line, <<"^error,msg=">>)
    THEN IF g.state # "ST_EXIT"
         THEN exit(g, Some(replace(strip(Tail(line), Q), EscN, NL)), FALSE)
         ELSE g
    ELSE IF startswith(line, <<"*stopped,">>)
    THEN stopped(g, line)
    ELSE IF startswith(line, <<"&", Q>>) /\ ~startswith(line, <<"&", Q, "warning:">>)
    THEN g
    ELSE IF g.state = "ST_PDB" /\ startswith(line, <<"~">>)
    THEN pdb_result(g, line, connects)
    ELSE g

\* The commands of GdbSocket.__init__: gdb does not stop the inferior on
\* these signals.
NoPrint ==
    <<"handle SIGPIPE noprint", "handle SIGUSR1 noprint", "handle SIGUSR2 noprint",
      "handle SIGALRM noprint", "handle SIGCHLD noprint", "handle SIGABRT noprint",
      "handle SIGKILL noprint", "handle SIGTERM noprint", "handle SIGXFSZ noprint",
      "handle SIGINT noprint">>

\* spawn_gdb(pid, ctx, libpath, address, gdb, verbose) up to asyncore.loop:
\* the GdbSocket is made, which asks gdb not to stop on ten signals, and
\* the commands that attach gdb to the process are pushed. A context
\* comes from attach_loop, which shares it between its sessions: the
\* statement line of an earlier session may be known.
spawn_gdb(ctx, verbose, seen) ==
    /\ gdb.phase = "none"
    /\ ctx \/ seen = {}
    /\ gdb' = cli_command(mi_command(
                 [NoGdb EXCEPT !.phase = "loop", !.ctx = ctx, !.verbose = verbose,
                               !.stmt.lines = seen,
                               !.pushed = [i \in 1..Len(NoPrint) |->
                                              <<"-interpreter-exec console ", Q,
                                                NoPrint[i], Q>>]],
                 <<"-target-attach">>), "python import pdb_clone.bootstrappdb_gdb")
    /\ UNCHANGED <<rvars, regvars, dbgvars>>

\* GdbSocket.found_terminator: one line of gdb is handled.
found_terminator(line, connects) ==
    /\ gdb.phase = "loop"
    /\ Len(gdb.received) < MaxReceived
    /\ \E g \in {[gdb EXCEPT !.received = Append(@, line)]} :
       \E st \in {statement_line(g, line)} :
          gdb' = line_cases(st[1], st[2], connects)
    /\ UNCHANGED <<rvars, regvars, dbgvars>>

\* GdbSocket.handle_close: gdb closed the connection, rc being what
\* proc.wait() returns.
handle_close(rc) ==
    /\ gdb.phase = "loop"
    /\ gdb' = [gdb EXCEPT !.phase = "closed",
                          !.state = IF rc < 0 THEN "ST_TERMINATED" ELSE @]
    /\ UNCHANGED <<rvars, regvars, dbgvars>>

\* The end of spawn_gdb: asyncore.loop returns once the connection is
\* closed, and gdb.error is returned.
spawn_gdb_return ==
    /\ gdb.phase = "closed"
    /\ gdb' = [gdb EXCEPT !.phase = "returned", !.returned = Some(gdb.error)]
    /\ UNCHANGED <<rvars, regvars, dbgvars>>

GdbInit == RegInit /\ ResolveIdle /\ DbgIdle /\ gdb = NoGdb

GdbNext ==
    \/ \E ctx \in BOOLEAN : \E verbose \in BOOLEAN :
       \E seen \in {{}, {<<"->", " x = 1">>}} : spawn_gdb(ctx, verbose, seen)
    \/ \E line \in GdbLines : \E connects \in BOOLEAN : found_terminator(line, connects)
    \/ \E rc \in {0, -9} : handle_close(rc)
    \/ spawn_gdb_return

SpecGdb == GdbInit /\ [][GdbNext]_vars

(***************************************************************************)
(* Quitting (C21).                                                         *)
(***************************************************************************)
\* A user callback is running.
InCallback == pc \in {"user", "user_unwind"}

\* The step that ends a user callback in which set_quit was called.
QuitStep == InCallback /\ quitting' /\ ~InCallback'

\* No frame of the thread has a local trace function.
Untagged(stk) == \A k \in DOMAIN stk : ~stk[k].f_trace

\* C21: after a user callback in which set_quit was called, BdbQuit is
\* raised when the bottom frame has a caller (it leaves every frame of the
\* debuggee and ends in the runner), and when it has none nothing is raised
\* and None is returned: only a frame that was returning leaves, nothing is
\* traced any more and no callback runs while quitting is set.
C21_QuitRaises ==
    [][QuitStep =>
          IF botframe # 1
          THEN stack' = << >> /\ pc' = "idle" /\ ~tracing'
          ELSE /\ pc' # "idle"
               /\ ~tracing' /\ Untagged(stack')
               /\ Len(stack') = IF last.event = "return" THEN Len(stack) - 1 ELSE Len(stack)]_vars

\* C21, the rest: while quitting is set no callback runs and nothing is traced.
C21_Quit ==
    /\ C21_QuitRaises
    /\ [](quitting => ~InCallback /\ ~tracing)

\* C21's case: the program that called set_trace goes on, untraced, after
\* the callback that called set_quit, two frames deep.
C21_Witness ==
    /\ quitting /\ pc = "run" /\ Len(stack) = 2
    /\ result.op = "set_trace"

\* C21's other case: BdbQuit ended a session started by runcall.
C21_WitnessRaised ==
    /\ quitting /\ pc = "idle" /\ stack = << >>
    /\ result = Outcome("runcall", "", None)

\* C21: the program goes on to its end after set_quit.
C21_WitnessEnd == quitting /\ pc = "done" /\ result.op = "set_trace"

(***************************************************************************)
(* The runners install and uninstall tracing (C22).                        *)
(***************************************************************************)
\* The step in which run, runeval or runcall ends.
RunnerEnds == stack # << >> /\ stack[1].unit = "runner" /\ stack' = << >>

\* The step in which the runner calls the debuggee.
RunnerCallsDebuggee == InRunner /\ Len(stack') = 2

\* C22: the trace function is installed when run, runeval or runcall calls
\* the debuggee, and when the runner ends nothing is traced, however it
\* ends: the debuggee returned, an exception of the debuggee reached the
\* runner, which lets it through to its caller, or BdbQuit was raised, which
\* the runner does not let through.
C22_RunnerSteps ==
    [][/\ RunnerCallsDebuggee => tracing
       /\ RunnerEnds =>
             /\ ~tracing' /\ pc' = "idle"
             /\ result'.op = result.op
             /\ result'.ret = IF pc = "raise" THEN "raised" ELSE ""]_vars

\* C22, as a whole: the steps of the runner, and nothing is traced once it
\* returned.
C22_Runners ==
    /\ C22_RunnerSteps
    /\ [](pc = "idle" => ~tracing)

\* C22's case: an exception of the debuggee left run.
C22_Witness ==
    /\ pc = "idle" /\ ~tracing
    /\ result = Outcome("run", "raised", None)

\* C22: the exception reaches the runner while the trace function is still
\* installed.
C22_WitnessTraced == InRunner /\ pc = "raise" /\ tracing

\* C22: BdbQuit ended runeval, raised in a callback at an exception event.
C22_WitnessQuit ==
    /\ pc = "idle" /\ quitting /\ ~tracing
    /\ result = Outcome("runeval", "", None)

\* C22: the debuggee of runcall returned, nothing having stopped.
C22_WitnessNormal ==
    /\ pc = "idle" /\ ~quitting /\ ~tracing /\ botframe = None
    /\ result = Outcome("runcall", "", None)

(***************************************************************************)
(* Each session starts afresh (C23).                                       *)
(***************************************************************************)
\* The step that enters run, runeval or runcall.
RunnerEntry == Ended /\ pc' = "run" /\ result'.op \in Runners

\* C23: entering run, runeval or runcall sets the stepping state to
\* (None, 0), quitting to false and the bottom frame to None whatever they
\* were, and changes nothing of the registry: the files with breakpoints,
\* the breakpoints of each file, each breakpoint (number, hits, ignore
\* count, enabled flag), the number map and the next number.
C23_RunnerResets ==
    [][RunnerEntry =>
          /\ stopframe_lno' = <<None, 0>>
          /\ ~quitting'
          /\ botframe' = None /\ topframe' = None
          /\ UNCHANGED <<breakpoints, breakpts, bps, bpbynumber, next>>]_vars

\* C23's case: a session starts with a breakpoint that was hit in an
\* earlier session, has an ignore count and is disabled.
C23_Witness ==
    /\ pc = "run" /\ RunnerCalls /\ result.ret = "running"
    /\ stopframe_lno = <<None, 0>> /\ ~quitting /\ botframe = None
    /\ \E b \in 1..Len(bps) : bps[b].hits > 0 /\ bps[b].ignore > 0 /\ ~bps[b].enabled

\* C23: what a session leaves behind: a quit, with the stepping state of a
\* 'next' in a frame that is gone.
C23_WitnessQuit == Ended /\ quitting /\ stopframe_lno = <<Gone, 0>>

\* C23: a session that ended after 'continue'.
C23_WitnessContinue == Ended /\ ~quitting /\ stopframe_lno = <<None, 0 - 1>> /\ botframe = Gone

(***************************************************************************)
(* Teardown twice (C28).                                                   *)
(***************************************************************************)
\* Bdb.set_continue() when no breakpoint is set: it ends tracing.
set_continue_no_breaks(d) == set_command(d, "continue", d.topframe, FALSE)

\* The debugger after a callback that called set_quit() once, whether or
\* not set_continue() came first.
QuitOnce ==
    {set_quit(Dbg), [set_quit(Dbg) EXCEPT !.stopframe_lno = <<None, 0 - 1>>]}

\* C28, the methods: at any time a second set_quit() changes nothing of
\* what the first one left, a second _stop_tracing() nothing of what the
\* first one left, and set_quit() after a set_continue() that ended tracing
\* leaves what set_quit() alone leaves, but for the stepping state of
\* 'continue'.
C28_SetQuitTwice ==
    /\ set_quit(set_quit(Dbg)) = set_quit(Dbg)
    /\ _stop_tracing(_stop_tracing(Dbg)) = _stop_tracing(Dbg)
    /\ set_quit(set_continue_no_breaks(Dbg))
          = [set_quit(Dbg) EXCEPT !.stopframe_lno = <<None, 0 - 1>>]

\* C28, the session: a callback that called set_quit(), once, twice or
\* after set_continue(), is followed by what follows a single set_quit(),
\* that is BdbQuit ending the runner or a thread that is not traced.
C28_AfterTeardown ==
    [][InCallback /\ quitting' =>
          /\ pc' = "idle" \/ ~tracing'
          /\ \E once \in QuitOnce :
                Dbg' = back_in_runner(_get_trace_function([once EXCEPT !.topframe = None],
                                                          topframe, last.event))]_vars

\* C28: tearing tracing down is idempotent, in the methods and in a session.
C28_Teardown == [](C28_SetQuitTwice) /\ C28_AfterTeardown

\* C28's case: no breakpoint was ever set, a callback called set_continue(),
\* which ended tracing, and then set_quit(); the program that called
\* set_trace goes on.
C28_Witness ==
    /\ quitting /\ ~tracing /\ stopframe_lno = <<None, 0 - 1>>
    /\ next = 1
    /\ pc = "run" /\ stack # << >>

\* C28: the same in a session of runeval, which BdbQuit ended.
C28_WitnessRaised ==
    /\ quitting /\ ~tracing /\ stopframe_lno = <<None, 0 - 1>>
    /\ next = 1
    /\ result = Outcome("runeval", "", None) /\ pc = "idle"

(***************************************************************************)
(* The stack shown at a stop (C29).                                        *)
(***************************************************************************)
\* Most frames an exception has left when a frame gets its exception event.
MaxTraceback == 2

\* The tracebacks exc_info[2] can be at an exception event in the frame at
\* depth f, as sequences of <<tb_frame, tb_lineno>>: the entry of f, then
\* one for each frame the exception left, which are gone from the stack and
\* are named by the depths they had.
Tracebacks(d, f) ==
    UNION {{<<<<f, d.stack[f].f_lineno>>>> \o [k \in 1..n |-> <<f + k, lines[k]>>] :
               lines \in [1..n -> Units["foo"].lines]} : n \in 0..MaxTraceback}

\* get_stack gone wrong: the index is always the one of the last entry.
get_stack_focus_last(d, f, t) ==
    LET rest == IF t # << >> /\ t[1][1] = f THEN Tail(t) ELSE t
        low == IF f # None /\ d.botframe \in 1..f THEN d.botframe ELSE 1
        frames == [k \in 1..(IF f = None THEN 0 ELSE f - low + 1) |->
                      <<low + k - 1, d.stack[low + k - 1].f_lineno>>]
    IN [stack |-> frames \o rest,
        index |-> Max({0, Len(frames \o rest) - 1})]

\* Bdb.get_stack(f, t), f being a depth of d.stack or None and t a
\* traceback (<< >> for None): the list of <<frame, lineno>> and the index.
\* The walk down f_back ends at botframe or below the frame at depth 1.
get_stack(d, f, t) ==
    LET rest == IF t # << >> /\ t[1][1] = f THEN Tail(t) ELSE t
        met == f # None /\ d.botframe \in 1..f
        low == IF met THEN d.botframe ELSE 1
        frames == [k \in 1..(IF f = None THEN 0 ELSE f - low + 1) |->
                      <<low + k - 1, d.stack[low + k - 1].f_lineno>>]
    IN [stack |-> frames \o rest,
        index |-> IF met THEN Max({0, Len(frames) - 1})
                  ELSE Max({0, Len(frames \o rest) - 1})]

\* BdbTest.set_up() at index: the new index and the message of the error.
set_up(index) ==
    IF index = 0 THEN [index |-> index, err |-> "Oldest frame"]
    ELSE [index |-> index - 1, err |-> ""]

\* What the callback of the stop gives get_stack as traceback: exc_info[2]
\* in user_exception, None in the others.
StopTracebacks ==
    IF last.event = "exception" THEN Tracebacks(Dbg, topframe) ELSE {<< >>}

\* The frames from depth lo to depth hi, oldest first, with their lines.
Entries(lo, hi) == [k \in 1..(hi - lo + 1) |-> <<lo + k - 1, stack[lo + k - 1].f_lineno>>]

\* C29, at a stop: get_stack(frame, traceback) is the list of the frames
\* from botframe (first) to frame, then the frames of the traceback in
\* order (frame itself, which heads the traceback, is listed once); the
\* index is the one of frame's entry; no entry is a frame older than
\* botframe; in botframe 'up' fails with 'Oldest frame'.
C29_AtStop ==
    InCallback =>
       /\ botframe \in 1..topframe
       /\ \A t \in StopTracebacks :
          \E g \in {get_stack(Dbg, topframe, t)} :
             /\ g.stack = Entries(botframe, topframe) \o (IF t = << >> THEN << >> ELSE Tail(t))
             /\ g.stack[1][1] = botframe
             /\ g.stack[g.index + 1][1] = topframe
             /\ g.index = topframe - botframe
             /\ \A k \in DOMAIN g.stack : g.stack[k][1] >= botframe
             /\ topframe = botframe => set_up(g.index).err = "Oldest frame"

\* C29, the first stop of run, runeval or runcall: it is in botframe, and
\* 'up' fails there.
C29_FirstStop ==
    [][botframe = None /\ InCallback' =>
          /\ botframe' = topframe'
          /\ set_up(get_stack(Dbg', topframe', << >>).index).err = "Oldest frame"]_vars

\* C29: what get_stack returns at every stop, and at the first one.
C29_GetStack == [](C29_AtStop) /\ C29_FirstStop

\* C29's case: an exception event two frames above botframe, the exception
\* coming from a callee.
C29_Witness ==
    /\ pc = "user" /\ last.event = "exception"
    /\ topframe = botframe + 2
    /\ Len(stack) = topframe
    /\ \E t \in StopTracebacks :
          /\ Len(t) = 2
          /\ get_stack(Dbg, topframe, t).index = 2
          /\ Len(get_stack(Dbg, topframe, t).stack) = 4

\* C29: the first stop of run, in the frame the runner called.
C29_WitnessFirst ==
    /\ pc = "user" /\ result = Outcome("run", "running", None)
    /\ botframe = 2 /\ topframe = 2
    /\ get_stack(Dbg, topframe, << >>) = [stack |-> <<<<2, stack[2].f_lineno>>>>, index |-> 0]

\* C29: a stop in a frame above botframe, from which 'up' moves.
C29_WitnessUp ==
    /\ pc = "user" /\ topframe > botframe
    /\ set_up(get_stack(Dbg, topframe, << >>).index) = [index |-> topframe - botframe - 1, err |-> ""]

(***************************************************************************)
(* Events while quitting is set (C31).                                     *)
(***************************************************************************)
\* BdbQuit leaves the frames of the thread: several frames are gone in one
\* step (a frame that returns, or the runner that ends, leaves alone).
Raised == Len(stack) > 1 /\ stack' = << >>

\* The dispatcher is given an event and ends the dispatch while quitting is
\* set, a callback called or not.
DispatchedQuitting ==
    /\ quitting'
    /\ \/ InCallback /\ ~InCallback'
       \/ last'.event # "" /\ ~InCallback'

\* C31 as stated: every dispatch that ends while quitting is set raises
\* BdbQuit.
C31_EveryEventAborts == [][DispatchedQuitting => Raised]_vars

\* C31: BdbQuit is raised only by the dispatch whose callback called
\* set_quit, and only when the bottom frame has a caller; a dispatch that
\* called no callback raises nothing; and once quitting is set no event
\* reaches the dispatcher, set_quit having taken tracing down, until the
\* reset of the next session.
C31_Quitting ==
    [][/\ Raised => InCallback /\ quitting' /\ ~quitting /\ botframe # 1
       /\ QuitStep /\ botframe # 1 => Raised \/ Len(stack) = 1
       /\ quitting => last' = NoEvent /\ ~InCallback'
       /\ quitting => ~tracing]_vars

\* C31's case: set_quit was called in a session started by set_trace, and
\* the program goes on in its outermost frame with quitting set and
\* nothing raised.
C31_Witness ==
    /\ quitting /\ ~tracing /\ pc = "run"
    /\ result.op = "set_trace"
    /\ Len(stack) = 1 /\ stack[1].f_lineno = 3 /\ ~stack[1].f_trace

\* C31's other case: BdbQuit ended a session of run.
C31_WitnessRaised ==
    /\ quitting /\ pc = "idle" /\ stack = << >>
    /\ result = Outcome("run", "", None)

(***************************************************************************)
(* Who changes the stepping state (C32).                                   *)
(***************************************************************************)
\* A stepping state once the stack is stk: the frame it names is the same
\* object, on the stack or gone from it.
Kept(sl, stk) ==
    <<IF sl[1] = None THEN None ELSE IF sl[1] \in 1..Len(stk) THEN sl[1] ELSE Gone, sl[2]>>

\* The debuggers a callback can leave when it returns: the set_* method of
\* a command was called for the frame of the callback (and set_quit after
\* it), or for another frame of the thread.
Left ==
    IF ~InCallback THEN {}
    ELSE {commanded(Dbg, k[1], k[2], has_breaks(breakpoints, breakpts)) :
             k \in {k \in Commands \X BOOLEAN : k[2] => k[1] \in {"quit", "continue"}}}
         \cup {set_command(Dbg, k[1], k[2], has_breaks(breakpoints, breakpts)) :
                  k \in FrameCommands \X DOMAIN stack}

\* The step ends a callback that left the debugger d.
EndsWith(d) ==
    /\ InCallback /\ ~InCallback'
    /\ Dbg' = back_in_runner(_get_trace_function([d EXCEPT !.topframe = None],
                                                 topframe, last.event))

\* A session starts: run, runeval, runcall or set_trace resets the debugger.
SessionEntry == Ended /\ pc' = "run"

\* dispatch_return sets the stepping state itself: the callback of a return
\* event ended with tracing on and BdbQuit not raised, the frame is not the
\* bottom frame, and the state the callback left is (None, 0) or targets
\* the frame.
ReturnSteps(d) ==
    /\ last.event = "return"
    /\ d.tracing
    /\ topframe # botframe
    /\ d.stopframe_lno = <<None, 0>> \/ d.stopframe_lno[1] = topframe

\* C32 as stated: the stepping state after a step is the one before it, or
\* the one the set_* method called in the callback left, or (None, 0) at
\* the entry of a session.
C32_OnlySetOperations ==
    [][/\ SessionEntry => stopframe_lno' = <<None, 0>>
       /\ ~SessionEntry /\ ~InCallback => stopframe_lno' = Kept(stopframe_lno, stack')
       /\ \A d \in Left :
             EndsWith(d) => stopframe_lno' = Kept(d.stopframe_lno, stack')]_vars

\* C32: the stepping state is changed by the set_* methods, by the reset at
\* the entry of a session, and by dispatch_return, which makes it (None, 0)
\* after the callback of the return of a frame other than the bottom frame
\* when the callback left (None, 0) or a state that targets the frame; no
\* other dispatch changes it.
C32_SteppingState ==
    [][/\ SessionEntry => stopframe_lno' = <<None, 0>>
       /\ ~SessionEntry /\ ~InCallback => stopframe_lno' = Kept(stopframe_lno, stack')
       /\ \A d \in Left :
             EndsWith(d) =>
                stopframe_lno' = IF ReturnSteps(d) THEN <<None, 0>>
                                 ELSE Kept(d.stopframe_lno, stack')
       /\ InCallback => \E d \in Left : EndsWith(d)]_vars

\* C32's case: the callback of the return event of the frame that 'next'
\* made the stop frame, a frame above the bottom frame; whatever set_*
\* method it calls for that frame, the state is (None, 0) after the dispatch.
C32_Witness ==
    /\ pc = "user" /\ last.event = "return"
    /\ stopframe_lno = <<topframe, 0>>
    /\ topframe > botframe
    /\ \E d \in Left : ReturnSteps(d) /\ d.stopframe_lno = <<topframe, 0>>

\* C32: the state set by 'return' in the bottom frame is kept when that
\* frame returns.
C32_WitnessBottom ==
    /\ pc = "run" /\ stopframe_lno = <<Gone, 0 - 1>>
    /\ botframe = Gone

(***************************************************************************)
(* set_next, set_until and set_return for any frame (C33).                 *)
(***************************************************************************)
\* The frames a client can name in a callback: the frames of the thread
\* and the frames of a traceback, which an exception has left.
AnyFrames == 1..(Len(stack) + MaxTraceback)

\* The line numbers given with a frame: 0 by set_next, -1 by set_return, a
\* line by set_until.
StopLines == {0, 0 - 1} \cup 1..(MaxLine + 1)

\* The frame at depth F lies on the stack between botframe and topframe.
OnSessionStack(F) == F \in botframe..topframe

\* d is the debugger of the callback but for the stepping state, which is
\* (G, lineno), and for the local trace function of G, which is installed.
Targets(d, G, lineno) ==
    /\ d.stopframe_lno = <<G, lineno>>
    /\ d.stack[G].f_trace
    /\ d = [Dbg EXCEPT !.stopframe_lno = <<G, lineno>>, !.stack[G].f_trace = TRUE]

\* C33 as stated: in a callback, the stepping state set for a frame F names
\* F whichever frame F is.
C33_AnyFrame ==
    InCallback =>
       \A F \in DOMAIN stack :
          /\ set_command(Dbg, "next", F, FALSE).stopframe_lno = <<F, 0>>
          /\ set_command(Dbg, "until", F, FALSE).stopframe_lno = <<F, stack[F].f_lineno + 1>>
          /\ set_command(Dbg, "return", F, FALSE).stopframe_lno = <<F, 0 - 1>>

\* C33: in a callback, set_next(F), set_until(F, L) and set_return(F) leave
\* the stepping state (F, 0), (F, L) and (F, -1) and F with the trace
\* function when F lies on the stack between the bottom frame and the top
\* frame; for any other frame (an older frame, or a frame that an exception
\* has left) they leave (botframe, 0), (botframe, L) and (botframe, -1) and
\* botframe with the trace function. Nothing else changes.
C33_SetStopinfo ==
    InCallback =>
       /\ botframe \in 1..topframe /\ topframe = Len(stack)
       /\ \A F \in AnyFrames : \A lineno \in StopLines :
             Targets(_set_stopinfo(Dbg, F, lineno),
                     IF OnSessionStack(F) THEN F ELSE botframe, lineno)
       /\ \A F \in DOMAIN stack :
             /\ set_command(Dbg, "next", F, FALSE) = _set_stopinfo(Dbg, F, 0)
             /\ set_command(Dbg, "until", F, FALSE)
                   = _set_stopinfo(Dbg, F, stack[F].f_lineno + 1)
             /\ set_command(Dbg, "return", F, FALSE) = _set_stopinfo(Dbg, F, 0 - 1)

\* C33's case: a callback in a frame whose caller, above the bottom frame,
\* has no trace function; 'next' for the caller installs it.
C33_Witness ==
    /\ InCallback
    /\ \E F \in DOMAIN stack :
          /\ botframe < F /\ F < topframe
          /\ ~stack[F].f_trace
          /\ set_command(Dbg, "next", F, FALSE).stack[F].f_trace

\* C33: the program runs on after 'return' was called for a caller of the
\* frame of the callback.
C33_WitnessActed ==
    /\ pc = "run" /\ tracing
    /\ stopframe_lno = <<Len(stack) - 1, 0 - 1>>
    /\ stack[Len(stack) - 1].f_trace
    /\ botframe < Len(stack) - 1

\* C33: the callback is in a frame above the bottom frame, which has older
\* frames below it; 'next' for one of those targets the bottom frame.
C33_WitnessOlder ==
    /\ InCallback /\ 1 < botframe /\ botframe < topframe
    /\ set_command(Dbg, "next", 1, FALSE).stopframe_lno = <<botframe, 0>>

(***************************************************************************)
(* Call events and the breakpoints of the function (C34).                  *)
(***************************************************************************)
\* The step is a call: the thread has one more frame.
CallStep == Len(stack') = Len(stack) + 1

\* The debugger at the call event, the new frame on the stack.
AtCall == [Dbg EXCEPT !.stack = Append(stack, Frame(Callee))]

\* The live breakpoints of the file the frame fr names, by its canonical
\* path or a related one, whose address has the first line of fr's code.
BreakpointsOfUnit(fr) ==
    {b \in Live : /\ fr.code[1] \in all_pathnames(bps[b].file)
                  /\ bps[b].actual_bp[1] = fr.code[2]}

\* C34: a call event dispatched with the latch disarmed and stop_here false
\* gives the frame the trace function if and only if a live breakpoint of
\* the frame's file has an address with the first line of the called code;
\* no callback is called and nothing else changes.
C34_CallEvent ==
    [][CallStep /\ tracing /\ ~ignore_first_call_event
                /\ ~stop_here(AtCall, skip, Len(stack) + 1) =>
          /\ stack'[Len(stack')].f_trace <=> BreakpointsOfUnit(Frame(Callee)) # {}
          /\ Dbg' = IF BreakpointsOfUnit(Frame(Callee)) # {}
                    THEN traced(AtCall, Len(stack) + 1) ELSE AtCall
          /\ ~InCallback' /\ last'.user = "" /\ last'.event = "call"
          /\ UNCHANGED regvars]_vars

\* C34's case: foo was called with the latch disarmed and stop_here false,
\* after the two breakpoints once set in foo were deleted: its frame has
\* no trace function although breakpoints 1 and 2 had a list there.
C34_Witness ==
    /\ last.event = "call" /\ last.user = "" /\ ~last.stop
    /\ Len(stack) = last.frame /\ stack[last.frame].unit = "foo"
    /\ ~stack[last.frame].f_trace
    /\ Len(bps) >= 2
    /\ \A b \in 1..Len(bps) : bps[b].actual_bp[1] = 2 => b \notin Live
    /\ \E b \in 1..Len(bps) : bps[b].actual_bp[1] = 2

\* C34: one of the two breakpoints of foo was deleted and foo's frame gets
\* the trace function at its call.
C34_WitnessOneLeft ==
    /\ last.event = "call" /\ last.user = "" /\ ~last.stop
    /\ Len(stack) = last.frame /\ stack[last.frame].unit = "foo"
    /\ stack[last.frame].f_trace
    /\ Cardinality({b \in 1..Len(bps) : bps[b].actual_bp[1] = 2}) = 2
    /\ Cardinality({b \in Live : bps[b].actual_bp[1] = 2}) = 1

\* C34: the only breakpoints are in the module, whose code starts at line
\* 1 as the code of dbg_module in another file does; the frame of
\* dbg_module gets no trace function.
C34_WitnessOtherFile ==
    /\ last.event = "call" /\ last.user = "" /\ ~last.stop
    /\ Len(stack) = last.frame /\ stack[last.frame].unit = "dbg_module"
    /\ ~stack[last.frame].f_trace
    /\ \E b \in Live : bps[b].actual_bp[1] = 1

(***************************************************************************)
(* The first call event of a session (C35).                                *)
(***************************************************************************)
\* C35, the entries: run and runeval set ignore_first_call_event, runcall
\* and set_trace clear it, and nothing sets it within a session.
C35_Armed ==
    [][/\ SessionEntry => (ignore_first_call_event' <=> result'.op \in {"run", "runeval"})
       /\ ~SessionEntry => (ignore_first_call_event' => ignore_first_call_event)]_vars

\* C35, the call events: the call event dispatched while the latch is set
\* calls no callback, leaves the frame with the trace function and clears
\* the latch, whatever stop_here says; a call event dispatched with the
\* latch cleared calls user_call when stop_here holds.
C35_CallEvents ==
    [][CallStep /\ tracing =>
          IF ignore_first_call_event
          THEN /\ Dbg' = traced([AtCall EXCEPT !.ignore_first_call_event = FALSE],
                                Len(stack) + 1)
               /\ ~InCallback' /\ last'.user = ""
          ELSE /\ ~ignore_first_call_event'
               /\ stop_here(AtCall, skip, Len(stack) + 1)
                     => InCallback' /\ last'.user = "call"]_vars

\* C35, which call event: within a session the latch is set only until the
\* first call event, the one of the code the runner runs.
C35_OnlyFirst ==
    ignore_first_call_event /\ ~Ended =>
       /\ RunnerCalls /\ tracing /\ pc = "run"
       /\ result.op \in {"run", "runeval"}

\* C35: ignore_first_call_event is set by run and runeval and cleared by
\* runcall and set_trace; exactly the first call event of a session of run
\* or runeval is skipped.
C35_Latch == C35_Armed /\ C35_CallEvents /\ [](C35_OnlyFirst)

\* C35's case: the first call event of run was skipped although stop_here
\* held (step mode, no module skipped): no callback, the frame traced.
C35_Witness ==
    /\ result = Outcome("run", "running", None)
    /\ skip = {} /\ stopframe_lno = <<None, 0>>
    /\ last = Event("call", 2, FALSE, << >>, << >>, "", FALSE)
    /\ Len(stack) = 2 /\ stack[2].f_trace
    /\ ~ignore_first_call_event /\ pc = "run"

\* C35: a later call event of the same session calls user_call
\* (test_run_step_into_a_function_and_get_call_event).
C35_WitnessLater ==
    /\ result = Outcome("runeval", "running", None)
    /\ pc = "user" /\ last.user = "call" /\ last.frame = 3
    /\ ~ignore_first_call_event

\* C35: the first call event of runcall calls user_call.
C35_WitnessRuncall ==
    /\ result = Outcome("runcall", "running", None)
    /\ pc = "user" /\ last.user = "call" /\ last.frame = 2 /\ botframe = 2

(***************************************************************************)
(* set_break in a callback and the frames of the call chain (C36).         *)
(***************************************************************************)
\* The step is a set_break called in a user callback that made a breakpoint.
SetBreakInCallback ==
    /\ InCallback /\ InCallback'
    /\ Len(bps') = Len(bps) + 1
    /\ result' = Outcome("set_break", "", Len(bps'))

\* The frame at depth k runs code of the file of breakpoint bp, named by
\* any of the file's path names, that starts at the first line of bp's
\* address.
RunsUnitOf(fr, bp) ==
    /\ fr.code[1] \in all_pathnames(bp.file)
    /\ fr.code[2] = bp.actual_bp[1]

\* C36, the tagging: after a set_break called in a callback every frame
\* from topframe down to botframe that runs the code unit of the new
\* breakpoint, its file named by any of its path names, has the trace
\* function.
C36_Tagging ==
    [][SetBreakInCallback =>
          \A k \in DOMAIN stack :
             /\ k \in botframe..topframe
             /\ RunsUnitOf(stack[k], bps'[Len(bps')])
             => stack'[k].f_trace]_vars

\* A line event of the program in a frame of the session's call chain, at
\* the address of a live breakpoint that is enabled, has no condition and
\* no ignore count, while tracing is installed.
LineAtBreakpoint ==
    /\ LineStep /\ tracing
    /\ botframe \in 1..Len(stack)
    /\ \E b \in Live :
          /\ RunsUnitOf(stack[Len(stack)], bps[b])
          /\ bps[b].actual_bp[2] = stack'[Len(stack)].f_lineno
          /\ bps[b].enabled /\ bps[b].cond = "" /\ bps[b].ignore = 0

\* C36, the hit: such a line event is given to user_line.
C36_Hit == [][LineAtBreakpoint => InCallback' /\ last'.user = "line"]_vars

\* C36: a breakpoint set in a callback tags the frames of its code unit on
\* the call chain, and is hit when control comes back to such a frame.
C36_TagsCallChain == C36_Tagging /\ C36_Hit

\* Every frame's code is named by the canonical path of its file.
CanonicalNames == \A k \in DOMAIN stack : stack[k].code[1] = canonic(stack[k].code[1])

\* What holds of the frames whose code is named by the canonical path.
C36_CanonicalFrames ==
    /\ [][SetBreakInCallback =>
             \A k \in DOMAIN stack :
                /\ k \in botframe..topframe
                /\ stack[k].code = <<bps'[Len(bps')].file, bps'[Len(bps')].actual_bp[1]>>
                => stack'[k].f_trace]_vars
    /\ [][CanonicalNames /\ LineAtBreakpoint => InCallback' /\ last'.user = "line"]_vars

\* C36's failing case: the module's code is named by a relative path, its
\* frame is a caller of the frame of the callback, above botframe, and has
\* no trace function; a breakpoint was just set at its first line, which
\* left it without trace function.
C36_Missed ==
    /\ InCallback /\ result = Outcome("set_break", "", Len(bps))
    /\ bps[Len(bps)].actual_bp = <<1, 1>>
    /\ \E k \in DOMAIN stack :
          /\ botframe <= k /\ k < topframe
          /\ stack[k].code = <<"m.py", 1>>
          /\ ~stack[k].f_trace

\* The same with the canonical path: the caller has the trace function.
C36_Tagged ==
    /\ InCallback /\ result = Outcome("set_break", "", Len(bps))
    /\ bps[Len(bps)].actual_bp = <<1, 1>>
    /\ \E k \in DOMAIN stack :
          /\ botframe <= k /\ k < topframe
          /\ stack[k].code = <<FILE, 1>>
          /\ stack[k].f_trace
          /\ ~stack[topframe].f_trace \/ stack[topframe].code[2] # 1

(***************************************************************************)
(* set_trace within a session of a runner (C37).                           *)
(***************************************************************************)
\* The step is set_trace(F) called while a session of a runner is active.
SetTraceOf(F) == set_trace_frame(F)

\* botframe is the frame F or an ancestor of F.
BottomAtOrBelow(F) == botframe \in 1..F

\* C37: set_trace(F) called while a session started by run or runcall is
\* active keeps the session's bottom frame when it is F or an ancestor of F,
\* and otherwise makes the oldest ancestor of F the bottom frame and gives
\* it the trace function; in both cases quitting is cleared, the first-call
\* latch is disarmed, global tracing is installed and the stepping state is
\* (None, 0).
C37_SetTraceInSession ==
    [][\A F \in DOMAIN stack :
          SetTraceOf(F) =>
             /\ BottomAtOrBelow(F) => botframe' = botframe
             /\ ~BottomAtOrBelow(F) => botframe' = 1 /\ stack'[1].f_trace
             /\ ~quitting'
             /\ ~ignore_first_call_event'
             /\ tracing'
             /\ stopframe_lno' = <<None, 0>>]_vars

\* set_trace(F) has just kept a bottom frame that is an ancestor of F, in a
\* session that was not tracing any more.
C37_Witness ==
    /\ RunnerSession /\ pc = "run" /\ last = NoEvent
    /\ botframe \in 2..(Len(stack) - 1)
    /\ tracing /\ ~quitting /\ ~ignore_first_call_event
    /\ stopframe_lno = <<None, 0>>
    /\ \E k \in (botframe + 1)..Len(stack) : stack[k].f_trace
    /\ ~stack[botframe].f_trace

\* set_trace(F) has just made the runner's frame the bottom frame.
C37_WitnessOldest ==
    /\ RunnerSession /\ pc = "run" /\ last = NoEvent
    /\ botframe = 1 /\ stack[1].f_trace /\ Len(stack) > 1
    /\ tracing /\ stopframe_lno = <<None, 0>>

(***************************************************************************)
(* Live breakpoints stay within reach (C38).                               *)
(***************************************************************************)
\* get_breaks given the file and the user line of the breakpoint b returns b.
Returned_by_get_breaks(b) == b \in Range(get_breaks(FILE, bps[b].line))

\* The step is clear_break given the file and the user line of a live
\* breakpoint.
ClearsLive(l) == LiveAt(l) # {} /\ clear_break(FILE, l)

\* C38: after any sequence of set_break, clear operations and restart,
\* including a restart that fails because the edited source does not
\* compile, every live breakpoint B is returned by
\* get_breaks(B.file, B.user_line) and can be deleted by
\* clear_break(B.file, B.user_line).
C38_LiveWithinReach ==
    /\ [](\A b \in Live : Returned_by_get_breaks(b))
    /\ [][\A l \in BreakLines :
             ClearsLive(l) => result'.ret = "" /\ Live' \cap LiveAt(l) = {}]_vars

\* The same while the module of the file has a code object.
C38_WithCode ==
    /\ [](bdb_module.code # NoCode => \A b \in Live : Returned_by_get_breaks(b))
    /\ [][\A l \in BreakLines :
             bdb_module.code # NoCode /\ ClearsLive(l) =>
                result'.ret = "" /\ Live' \cap LiveAt(l) = {}]_vars

\* A restart has failed to compile the file and a breakpoint is live.
C38_FailedRestart ==
    /\ result.op = "restart" /\ result.ret # ""
    /\ bdb_module.code = NoCode
    /\ Live # {}

(***************************************************************************)
(* No stop request on a frame that has returned (C39).                     *)
(***************************************************************************)
\* The step ends the dispatch of the return event of the frame F, which
\* returns: the event did not stop, or the callback it ran ends.
ReturnDispatched(F) ==
    /\ F = Len(stack) /\ ~InRunner
    /\ Len(stack') < Len(stack)
    /\ \/ pc \in {"run", "unwind"} /\ tracing /\ stack[F].f_trace
       \/ InCallback /\ last.event = "return" /\ topframe = F

\* C39: after the return event of a frame F other than the bottom frame has
\* been dispatched with tracing still active, the stepping state does not
\* target F: a state (F, n) is replaced by (None, 0) at F's return, and no
\* stop request is left on a frame that has finished.
C39_ReturnedFrameNotTargeted ==
    [][\A F \in DOMAIN stack :
          ReturnDispatched(F) /\ F # botframe /\ tracing' =>
             /\ stopframe_lno'[1] # Gone
             /\ ~InCallback => stopframe_lno[1] # F
             /\ \A d \in Left :
                   EndsWith(d) /\ d.stopframe_lno[1] = F =>
                      stopframe_lno' = <<None, 0>>]_vars

\* The callback of the return event of a frame above the bottom frame can
\* end with a stepping state that targets the frame with a line number.
C39_Witness ==
    /\ InCallback /\ last.event = "return"
    /\ topframe # botframe /\ topframe > 1 /\ tracing
    /\ \E d \in Left :
          /\ d.tracing /\ ~d.quitting
          /\ d.stopframe_lno[1] = topframe /\ d.stopframe_lno[2] > 0

\* The return event of a frame the stepping state targets is dispatched.
C39_WitnessTargeted ==
    /\ InCallback /\ last.event = "return" /\ ~last.stop
    /\ topframe # botframe /\ stopframe_lno[1] = topframe

(***************************************************************************)
(* The first error of an attach session (C40).                             *)
(***************************************************************************)
\* The message of an '^error' line.
ErrorOf(line) == replace(strip(Tail(line), Q), EscN, NL)

\* The message of an '^error' line is recorded.
ErrorRecorded == \E l \in ErrorLines : gdb.error = Some(ErrorOf(l))

\* The step is found_terminator with the line l.
Receives(l) ==
    /\ gdb.phase = "loop"
    /\ gdb'.received = Append(gdb.received, l)

\* C40: in a gdb/mi attach session, once an error message has been recorded
\* (the exit state entered with a message after an '^error' line), no later
\* line of gdb replaces or clears it: the error spawn_gdb returns is the
\* first error message received, whatever lines arrive before '^exit'.
C40_FirstErrorKept ==
    [][ErrorRecorded =>
          /\ gdb'.error = gdb.error
          /\ gdb'.phase = "returned" => gdb'.returned = gdb.error]_vars

\* A further '^error' line received in the exit state leaves the message.
C40_NextErrorIgnored ==
    [][\A l \in ErrorLines :
          gdb.state = "ST_EXIT" /\ Receives(l) => gdb'.error = gdb.error]_vars

\* The recorded message was cleared by a '*stopped,' line, and spawn_gdb
\* returned None.
C40_Cleared ==
    /\ gdb.phase = "returned" /\ gdb.returned = Some(Nothing)
    /\ Len(gdb.received) = 3
    /\ gdb.received[1] \in ErrorLines
    /\ gdb.received[2] = ExitedLine
    /\ gdb.received[3] = ExitLine

\* The recorded message was replaced by that of a later '^error' line.
C40_Replaced ==
    /\ gdb.phase = "loop" /\ ~gdb.ctx
    /\ Len(gdb.received) = 3
    /\ gdb.received[1] \in ErrorLines
    /\ gdb.received[2] = FrameLine
    /\ gdb.received[3] \in ErrorLines
    /\ gdb.error = Some(ErrorOf(gdb.received[3]))
    /\ gdb.received[3] # gdb.received[1]

====
